---- MODULE Spec2Model ----
(***************************************************************************)
(* State-machine model of the kingdom_spices_herbs dashboard backend: the  *)
(* message routes and their priority classifier, the category / product    *)
(* routes, the certificate and team routes, and the asset host they call.  *)
(* Strings the code inspects are sequences of one-character strings, so    *)
(* trim, toLowerCase and includes are computed as the code computes them.  *)
(***************************************************************************)
EXTENDS Integers, Sequences, FiniteSets, TLC

VARIABLES
    now,        \* the wall clock read by new Date()
    messages,   \* the Message collection, in insertion order (_id = index)
    msgResp,    \* the last request to /api/messages and its response
    db,         \* the Category, Product, Certificate and TeamMember collections
    assets,     \* the public ids of the assets the media host holds
    uploads,    \* how many assets the upload middleware has stored so far
    reqs,       \* per connection: the request being handled, or its response
    cachedConnection,   \* the module variable of the same name: the connection kept
    connects    \* how many times mongoose.connect has been called

msgVars == <<now, messages, msgResp>>
storeVars == <<db, assets, uploads, reqs>>
connVars == <<cachedConnection, connects>>
vars == <<now, messages, msgResp, db, assets, uploads, reqs, cachedConnection, connects>>

----------------------------------------------------------------------------
(* Bounds of the model. *)

MaxClock == 2
MaxMessages == 1
MaxProducts == 2
MaxCategories == 2
MaxCertificates == 1
MaxTeam == 2
MaxContacts == 2
MaxUploads == 3
MaxInFlight == 2

----------------------------------------------------------------------------
(* Values standing for JavaScript's undefined. *)

Absent == "undefined"
NoDate == 0

(* let cachedConnection = null                                             *)
NoConnection == 0

----------------------------------------------------------------------------
(* String helpers: String.prototype.toLowerCase, includes, and the         *)
(* validator's trim().                                                     *)

UpperChars == <<"A", "B", "C", "D", "E", "F", "G", "H", "I", "J", "K", "L", "M",
                "N", "O", "P", "Q", "R", "S", "T", "U", "V", "W", "X", "Y", "Z">>
LowerChars == <<"a", "b", "c", "d", "e", "f", "g", "h", "i", "j", "k", "l", "m",
                "n", "o", "p", "q", "r", "s", "t", "u", "v", "w", "x", "y", "z">>

toLowerChar(c) ==
    IF \E i \in DOMAIN UpperChars : UpperChars[i] = c
    THEN LowerChars[CHOOSE i \in DOMAIN UpperChars : UpperChars[i] = c]
    ELSE c

toLowerCase(s) == [i \in DOMAIN s |-> toLowerChar(s[i])]

includes(text, kw) ==
    \E i \in 0..(Len(text) - Len(kw)) : SubSeq(text, i + 1, i + Len(kw)) = kw

RECURSIVE trimStart(_)
trimStart(s) ==
    IF s # <<>> /\ Head(s) = " " THEN trimStart(Tail(s)) ELSE s

RECURSIVE trimEnd(_)
trimEnd(s) ==
    IF s # <<>> /\ s[Len(s)] = " " THEN trimEnd(SubSeq(s, 1, Len(s) - 1)) ELSE s

trim(s) == trimEnd(trimStart(s))

concat(a, b) == a \o <<" ">> \o b

----------------------------------------------------------------------------
(* The classifier's keywords (part_003, lines 137-141).                    *)

KwCeo ==
    <<"c", "e", "o">>
KwUrgent ==
    <<"u", "r", "g", "e", "n", "t">>
KwImportant ==
    <<"i", "m", "p", "o", "r", "t", "a", "n", "t">>
KwSalesManager ==
    <<"s", "a", "l", "e", "s", " ", "m", "a", "n", "a", "g", "e", "r">>
KwHerb ==
    <<"h", "e", "r", "b">>
KwNatural ==
    <<"n", "a", "t", "u", "r", "a", "l">>

(* Lists the routes and the schema accept.                                 *)
RouteCategories ==
    {"general", "support", "sales", "partnership", "complaint", "herbs", "other"}
RoutePriorities ==
    {"low", "medium", "high", "CEO", "Sales Manager", "Herbs Priority"}
SchemaPriorities == {"low", "medium", "high"}
SchemaCategories ==
    {"general", "support", "sales", "partnership", "complaint", "other"}

----------------------------------------------------------------------------
(* Request inputs the model draws from: <<subject, message>> as submitted. *)

SampleTexts ==
    { <<<<"U", "r", "g", "e", "n", "t", " ", "r", "e", "q", "u", "e", "s", "t">>,
        <<"n", "e", "e", "d", " ", "h", "e", "l", "p">>>>,
      <<<<"o", "r", "d", "e", "r">>,
        <<"I", " ", "l", "o", "v", "e", " ", "y", "o", "u", "r", " ", "h", "e", "r", "b", "s">>>>,
      <<<<"i", "s", "s", "u", "e">>,
        <<"b", "a", "d", " ", "s", "e", "r", "v", "i", "c", "e">>>>,
      <<<<"h", "i">>,
        <<"j", "u", "s", "t", " ", "s", "a", "y", "i", "n", "g", " ", "h", "e", "l", "l", "o">>>>,
      <<<<"s", "a", "l", "e", "s">>,
        <<"m", "a", "n", "a", "g", "e", "r">>>>,
      <<<<"s", "a", "l", "e", "s", " ">>,
        <<"m", "a", "n", "a", "g", "e", "r">>>>,
      <<<<"u", "r", "g", "e", "n", "t">>,
        <<"s", "a", "l", "e", "s", " ", "m", "a", "n", "a", "g", "e", "r">>>>,
      <<<<"c", "e">>,
        <<"o", " ", "N", "A", "T", "U", "R", "A", "L">>>>,
      <<<<" ">>,
        <<"I", "m", "p", "o", "r", "t", "a", "n", "t">>>> }

(* category of a POST body: absent, accepted by route and schema, accepted *)
(* by the route alone ("herbs"), or rejected by the route ("spam").         *)
SampleCategories == {Absent, "general", "sales", "complaint", "herbs", "spam"}

(* Bodies of PUT /api/messages/:id.                                        *)
PutBody(isRead, replied, priority, category) ==
    [isRead |-> isRead, replied |-> replied, priority |-> priority, category |-> category]

SamplePutBodies ==
    {PutBody(r, Absent, Absent, c) : r \in {Absent, "true", "false"},
                                    c \in {Absent, "general", "complaint"}}
    \cup {PutBody(Absent, p, Absent, Absent) : p \in {"true", "false"}}
    \cup {PutBody(Absent, Absent, pr, Absent) : pr \in RoutePriorities \cup {"critical"}}
    \cup {PutBody(Absent, Absent, pr, c) : pr \in {"high", "CEO"}, c \in {"sales", "herbs"}}
    \cup {PutBody(Absent, Absent, Absent, c) : c \in {"sales", "herbs", "spam"}}
(* JSON booleans of a request body, or undefined.                          *)
SampleFlags == {Absent, "true", "false"}
bool(v) == v = "true"

MaxSubjectLen == 200
MaxMessageLen == 2000

----------------------------------------------------------------------------
(* Message routes (part_003) over the Message schema (models/Message.js).  *)

(* The priority rules of POST /api/messages, applied to the handler's      *)
(* subject, message and category.                                          *)
classifyPriority(subject, message, category) ==
    LET text == toLowerCase(concat(subject, message))
    IN  IF includes(text, KwCeo) \/ includes(text, KwUrgent) \/ includes(text, KwImportant)
        THEN "CEO"
        ELSE IF category = "sales" \/ includes(text, KwSalesManager)
        THEN "Sales Manager"
        ELSE IF category = "herbs" \/ includes(text, KwHerb) \/ includes(text, KwNatural)
        THEN "Herbs Priority"
        ELSE IF category = "complaint"
        THEN "high"
        ELSE "medium"

(* A classifier that tests the 'Sales Manager' rule before the 'CEO' rule. *)
classifySalesFirst(subject, message, category) ==
    LET text == toLowerCase(concat(subject, message))
    IN  IF category = "sales" \/ includes(text, KwSalesManager)
        THEN "Sales Manager"
        ELSE IF includes(text, KwCeo) \/ includes(text, KwUrgent) \/ includes(text, KwImportant)
        THEN "CEO"
        ELSE IF category = "herbs" \/ includes(text, KwHerb) \/ includes(text, KwNatural)
        THEN "Herbs Priority"
        ELSE IF category = "complaint"
        THEN "high"
        ELSE "medium"

(* A classifier that escalates whatever arrives while messages are stored. *)
derivePriorityByBacklog(subject, message, category) ==
    IF messages # <<>> THEN "CEO" ELSE classifyPriority(subject, message, category)

(* POST /api/messages derives the priority of messageData.                 *)
derivePriority(subject, message, category) ==
    classifyPriority(subject, message, category)

(* An update that falls back to the schema default when no priority is     *)
(* supplied.                                                               *)
assignPriorityOrDefault(doc, priority) ==
    [doc EXCEPT !.priority = IF priority # Absent THEN priority ELSE "medium"]

(* PUT /api/messages/:id: if (priority) message.priority = priority.       *)
assignPriority(doc, priority) ==
    IF priority # Absent THEN [doc EXCEPT !.priority = priority] ELSE doc

(* The schema's enum validators, run by save().                            *)
messageSchemaValid(doc) ==
    /\ doc.priority \in SchemaPriorities
    /\ doc.category \in SchemaCategories

MaxNameLen == 100

(* body('name').trim().isLength({ min: 1, max: 100 })                      *)
nameValid(name) == Len(name) >= 1 /\ Len(name) <= MaxNameLen

(* The name the contact form's sample submissions carry.                   *)
SenderName == <<"A">>

(* express-validator chain of POST /api/messages, on the trimmed fields.   *)
postMessageValid(subject, message, category) ==
    /\ Len(subject) >= 1 /\ Len(subject) <= MaxSubjectLen
    /\ Len(message) >= 1 /\ Len(message) <= MaxMessageLen
    /\ (category = Absent \/ category \in RouteCategories)

(* express-validator chain of PUT /api/messages/:id.                       *)
putMessageValid(isRead, replied, priority, category) ==
    /\ isRead \in {Absent, "true", "false"}
    /\ replied \in {Absent, "true", "false"}
    /\ (priority = Absent \/ priority \in RoutePriorities)
    /\ (category = Absent \/ category \in RouteCategories)

NoRequest ==
    [op |-> "none", status |-> 0, id |-> 0, name |-> <<>>, subject |-> <<>>,
     message |-> <<>>,
     category |-> Absent, priority |-> Absent, isRead |-> Absent, replied |-> Absent,
     derived |-> Absent]

(* POST /api/messages: validate, build messageData, classify, save.        *)
PostMessage(rawName, rawSubject, rawMessage, category) ==
    LET name == trim(rawName)
        subject == trim(rawSubject)
        message == trim(rawMessage)
        derived == derivePriority(subject, message, category)
        doc == [name |-> name, subject |-> subject, message |-> message,
                category |-> IF category = Absent THEN "general" ELSE category,
                priority |-> derived,
                isRead |-> FALSE, readAt |-> NoDate,
                replied |-> FALSE, repliedAt |-> NoDate, createdAt |-> now]
        req == [NoRequest EXCEPT !.op = "POST", !.name = rawName, !.subject = rawSubject,
                                 !.message = rawMessage, !.category = category]
    IN  IF ~(nameValid(name) /\ postMessageValid(subject, message, category))
        THEN /\ msgResp' = [req EXCEPT !.status = 400]
             /\ UNCHANGED <<now, messages, storeVars, connVars>>
        ELSE IF ~messageSchemaValid(doc)
        THEN /\ msgResp' = [req EXCEPT !.status = 500, !.derived = derived]
             /\ UNCHANGED <<now, messages, storeVars, connVars>>
        ELSE /\ Len(messages) < MaxMessages
             /\ messages' = Append(messages, doc)
             /\ msgResp' = [req EXCEPT !.status = 201, !.derived = derived,
                                       !.id = Len(messages) + 1,
                                       !.priority = derived]
             /\ UNCHANGED <<now, storeVars, connVars>>

(* PUT /api/messages/:id: validate, findById, assign, save.                *)
PutMessage(id, isRead, replied, priority, category) ==
    LET req == [NoRequest EXCEPT !.op = "PUT", !.id = id, !.isRead = isRead,
                                 !.replied = replied, !.priority = priority,
                                 !.category = category]
    IN  IF ~putMessageValid(isRead, replied, priority, category)
        THEN /\ msgResp' = [req EXCEPT !.status = 400]
             /\ UNCHANGED <<now, messages, storeVars, connVars>>
        ELSE IF id \notin DOMAIN messages
        THEN /\ msgResp' = [req EXCEPT !.status = 404]
             /\ UNCHANGED <<now, messages, storeVars, connVars>>
        ELSE LET old == messages[id]
                 m1 == IF isRead # Absent
                       THEN [old EXCEPT !.isRead = bool(isRead),
                                        !.readAt = IF bool(isRead) /\ old.readAt = NoDate
                                                   THEN now ELSE old.readAt]
                       ELSE old
                 m2 == IF replied # Absent
                       THEN [m1 EXCEPT !.replied = bool(replied),
                                       !.repliedAt = IF bool(replied) /\ m1.repliedAt = NoDate
                                                     THEN now ELSE m1.repliedAt]
                       ELSE m1
                 m3 == assignPriority(m2, priority)
                 m4 == IF category # Absent THEN [m3 EXCEPT !.category = category] ELSE m3
             IN  IF ~messageSchemaValid(m4)
                 THEN /\ msgResp' = [req EXCEPT !.status = 500]
                      /\ UNCHANGED <<now, messages, storeVars, connVars>>
                 ELSE /\ messages' = [messages EXCEPT ![id] = m4]
                      /\ msgResp' = [req EXCEPT !.status = 200]
                      /\ UNCHANGED <<now, storeVars, connVars>>

(* A read that stamps the message whether or not it was read before.       *)
markReadAlways(message, t) == [message EXCEPT !.isRead = TRUE, !.readAt = t]

(* if (!message.isRead) { message.isRead = true; message.readAt = new      *)
(* Date(); await message.save() }                                          *)
markRead(message, t) ==
    IF ~message.isRead
    THEN [message EXCEPT !.isRead = TRUE, !.readAt = t]
    ELSE message

(* GET /api/messages/:id: findById, mark read, save.                       *)
GetMessage(id) ==
    LET req == [NoRequest EXCEPT !.op = "GET", !.id = id]
    IN  IF id \notin DOMAIN messages
        THEN /\ msgResp' = [req EXCEPT !.status = 404]
             /\ UNCHANGED <<now, messages, storeVars, connVars>>
        ELSE /\ messages' = [messages EXCEPT ![id] = markRead(messages[id], now)]
             /\ msgResp' = [req EXCEPT !.status = 200]
             /\ UNCHANGED <<now, storeVars, connVars>>

(* Time passes between requests.                                           *)
Tick ==
    /\ now < MaxClock
    /\ now' = now + 1
    /\ UNCHANGED <<messages, msgResp, storeVars, connVars>>

(* The contact form submits any of the sample texts.                       *)
PostMessageStep ==
    \E t \in SampleTexts, c \in SampleCategories : PostMessage(SenderName, t[1], t[2], c)

(* The two sample texts of the spec's literal cases that classify as 'CEO' *)
(* and as 'medium' / 'high'.                                               *)
FewTexts ==
    {t \in SampleTexts : t[1] \in {<<"h", "i">>, <<"i", "s", "s", "u", "e">>,
                                     <<"u", "r", "g", "e", "n", "t">>}}

PostFewStep ==
    \E t \in FewTexts, c \in SampleCategories : PostMessage(SenderName, t[1], t[2], c)

PutMessageStep ==
    \E id \in 1..(MaxMessages + 1), b \in SamplePutBodies :
        PutMessage(id, b.isRead, b.replied, b.priority, b.category)

GetMessageStep ==
    \E id \in 1..(MaxMessages + 1) : GetMessage(id)

MsgNext ==
    \/ PostFewStep
    \/ PutMessageStep
    \/ GetMessageStep
    \/ Tick

ClassifyNext == PostMessageStep

----------------------------------------------------------------------------
(* The document store behind the catalog routes. A collection is the       *)
(* sequence of the documents ever inserted, _id = index; a deleted         *)
(* document leaves DeletedDoc, which is also what findById returns for an  *)
(* _id that matches nothing (null).                                        *)

NoId == 0
BadId == -1
NoAsset == 0

DeletedDoc == [live |-> FALSE]

Slots == 1..MaxInFlight

Idle == [op |-> "idle", pc |-> "idle"]

Free(s) == reqs[s].pc \in {"idle", "done"}

isValidObjectId(id) == id # BadId

findById(coll, id) ==
    IF id \in DOMAIN coll /\ coll[id].live THEN coll[id] ELSE DeletedDoc

(* Product.countDocuments({ category: category._id })                      *)
countDocuments(products, category) ==
    Cardinality({i \in DOMAIN products :
                    products[i].live /\ products[i].category = category})

(* document.save() of a loaded document writes the paths whose value       *)
(* differs from the loaded one, onto the document as stored now.           *)
applyModified(stored, loaded, updated) ==
    [f \in DOMAIN stored |-> IF updated[f] # loaded[f] THEN updated[f] ELSE stored[f]]

(* price as the multipart form sends it, and the Number the schema casts   *)
(* it to.                                                                  *)
SamplePrices == {Absent, "5", "-1"}
toNumber(price) == IF price = "-1" THEN -1 ELSE IF price = "5" THEN 5 ELSE 0

(* productSchema: price has min 0.                                         *)
productSchemaValid(doc) == doc.price = Absent \/ toNumber(doc.price) >= 0

respond(r, status, msg) == [r EXCEPT !.pc = "done", !.status = status, !.msg = msg]

(* The categories the seed script creates, as far as the model bound goes. *)
defaultCategories ==
    << <<"H", "e", "r", "b", "s">>, <<"S", "e", "e", "d", "s">>,
       <<"L", "e", "g", "u", "m", "e", "s">>, <<"S", "p", "i", "c", "e", "s">> >>

MaxSeeded == 2

seedCategories ==
    [i \in 1..MaxSeeded |->
        [live |-> TRUE, createdAt |-> 1, name |-> defaultCategories[((i - 1) % 4) + 1] \o
                                 (IF i > 4 THEN <<"2">> ELSE <<>>),
         isActive |-> TRUE]]

emptyDb ==
    [categories |-> <<>>, products |-> <<>>, certificates |-> <<>>, team |-> <<>>,
     contacts |-> <<>>]

----------------------------------------------------------------------------
(* Product routes (routes/products.js).                                    *)

(* The upload middleware stores req.file on the media host before the      *)
(* handler runs; file is the public id it was given, NoAsset without one.  *)
uploadedFile(hasFile) == IF hasFile THEN uploads + 1 ELSE NoAsset

Upload(hasFile) ==
    /\ hasFile => uploads < MaxUploads
    /\ uploads' = IF hasFile THEN uploads + 1 ELSE uploads
    /\ assets' = IF hasFile THEN assets \cup {uploads + 1} ELSE assets

PendingInserts(op) ==
    Cardinality({t \in Slots : reqs[t].op = op /\ reqs[t].pc = "save"})

(* POST /api/products up to the category lookup.                           *)
categoryAssumed(categories, category) ==
    TRUE

(* const categoryExists = await Category.findById(category): the category  *)
(* the request names is a stored one.                                       *)
categoryExists(categories, category) ==
    findById(categories, category).live

ProductPostBegin(s, category, hasFile, price) ==
    LET r == [op |-> "ProductPost", pc |-> "save", id |-> NoId, category |-> category,
              file |-> uploadedFile(hasFile), price |-> price, queried |-> FALSE,
              status |-> 0, msg |-> ""]
        q == [r EXCEPT !.queried = TRUE]
    IN  /\ Free(s)
        /\ Len(db.products) + PendingInserts("ProductPost") < MaxProducts
        /\ Upload(hasFile)
        /\ reqs' = [reqs EXCEPT ![s] =
              IF category = NoId
              THEN respond(r, 400, "Name, description, and category are required")
              ELSE IF ~isValidObjectId(category)
              THEN respond(r, 400, "Invalid category ID format")
              ELSE IF ~categoryExists(db.categories, category)
              THEN respond(q, 400, "Category not found in database")
              ELSE q]
        /\ UNCHANGED <<db, msgVars, connVars>>

(* POST /api/products: new Product(productData).save() and the response.   *)
ProductPostSave(s) ==
    LET r == reqs[s]
        product == [live |-> TRUE, createdAt |-> now, category |-> r.category,
                    imagePublicId |-> r.file, price |-> r.price, inStock |-> TRUE]
    IN  /\ r.op = "ProductPost" /\ r.pc = "save"
        /\ IF ~productSchemaValid(product)
           THEN /\ reqs' = [reqs EXCEPT ![s] = respond(r, 400, "Validation error")]
                /\ UNCHANGED db
           ELSE /\ db' = [db EXCEPT !.products = Append(@, product)]
                /\ reqs' = [reqs EXCEPT ![s] =
                      respond([r EXCEPT !.id = Len(db.products) + 1], 201,
                              "Product created successfully")]
        /\ UNCHANGED <<assets, uploads, msgVars, connVars>>

(* Where PUT goes once the category is settled: the image update, then     *)
(* the save.                                                               *)
afterImageCheck(r) ==
    IF r.file # NoAsset /\ r.doc.imagePublicId # NoAsset
    THEN [r EXCEPT !.pc = "deleteImage"]
    ELSE [r EXCEPT !.pc = "save"]

(* PUT /api/products/:id up to the product lookup and the format check.    *)
ProductPutBegin(s, id, category, hasFile, price, inStock) ==
    LET doc == findById(db.products, id)
        r == [op |-> "ProductPut", pc |-> "findCategory", id |-> id,
              category |-> category, file |-> uploadedFile(hasFile), price |-> price,
              inStock |-> inStock, doc |-> doc, assetCall |-> "none", queried |-> TRUE,
              status |-> 0, msg |-> ""]
    IN  /\ Free(s)
        /\ Upload(hasFile)
        /\ reqs' = [reqs EXCEPT ![s] =
              IF ~isValidObjectId(id)
              THEN respond(r, 400, "Invalid product ID")
              ELSE IF ~doc.live
              THEN respond(r, 404, "Product not found")
              ELSE IF category = NoId
              THEN afterImageCheck(r)
              ELSE IF ~isValidObjectId(category)
              THEN respond(r, 400, "Invalid category ID format")
              ELSE r]
        /\ UNCHANGED <<db, msgVars, connVars>>

(* PUT /api/products/:id: Category.findById(category).                     *)
ProductPutFindCategory(s) ==
    LET r == reqs[s]
    IN  /\ r.op = "ProductPut" /\ r.pc = "findCategory"
        /\ reqs' = [reqs EXCEPT ![s] =
              IF ~categoryExists(db.categories, r.category)
              THEN respond(r, 400, "Category not found")
              ELSE afterImageCheck(r)]
        /\ UNCHANGED <<db, assets, uploads, msgVars, connVars>>

(* PUT /api/products/:id: the field updates and product.save().            *)
ProductPutSave(s) ==
    LET r == reqs[s]
        u1 == IF r.file # NoAsset THEN [r.doc EXCEPT !.imagePublicId = r.file] ELSE r.doc
        u2 == IF r.category # NoId THEN [u1 EXCEPT !.category = r.category] ELSE u1
        u3a == IF r.price # Absent THEN [u2 EXCEPT !.price = r.price] ELSE u2
        u3 == IF r.inStock # Absent THEN [u3a EXCEPT !.inStock = bool(r.inStock)] ELSE u3a
        stored == findById(db.products, r.id)
    IN  /\ r.op = "ProductPut" /\ r.pc = "save"
        /\ IF ~productSchemaValid(u3)
           THEN /\ reqs' = [reqs EXCEPT ![s] = respond(r, 400, "Validation error")]
                /\ UNCHANGED db
           ELSE IF ~stored.live
           THEN /\ reqs' = [reqs EXCEPT ![s] =
                      respond(r, 500, "Server error while updating product")]
                /\ UNCHANGED db
           ELSE /\ db' = [db EXCEPT !.products[r.id] = applyModified(stored, r.doc, u3)]
                /\ reqs' = [reqs EXCEPT ![s] =
                      respond(r, 200, "Product updated successfully")]
        /\ UNCHANGED <<assets, uploads, msgVars, connVars>>

----------------------------------------------------------------------------
(* Category routes (routes/contact.js, second router).                     *)

(* Category.findOne({ name: { $regex: new RegExp(`^${name}$`, 'i') },      *)
(* _id: { $ne: except } }): for a name of letters the pattern matches the  *)
(* names equal to it ignoring case.                                        *)
findOneByName(categories, name, except) ==
    \E j \in DOMAIN categories :
        /\ j # except
        /\ categories[j].live
        /\ toLowerCase(categories[j].name) = toLowerCase(name)

(* The Category collection's unique index on name, case-insensitive: the   *)
(* write of name to document id is refused with error code 11000.          *)
categoryNameTaken(categories, id, name) ==
    \E j \in DOMAIN categories :
        /\ j # id
        /\ categories[j].live
        /\ toLowerCase(categories[j].name) = toLowerCase(name)

MaxCategoryNameLen == 50

(* body('name').trim().isLength({ min: 1, max: 50 })                       *)
categoryNameValid(name) == Len(name) >= 1 /\ Len(name) <= MaxCategoryNameLen

(* A catch block that has no branch for error code 11000.                  *)
catchWithoutDuplicateKey(r, err) ==
    LET q == [r EXCEPT !.err = err]
    IN  IF err = "CastError" THEN respond(q, 400, "Invalid category ID")
        ELSE IF err = "ValidationError" THEN respond(q, 400, "Validation error")
        ELSE respond(q, 500, "Server error while saving category")

(* The catch blocks of the category routes.                                *)
catchCategoryError(r, err) ==
    LET q == [r EXCEPT !.err = err]
    IN  IF err = "CastError" THEN respond(q, 400, "Invalid category ID")
        ELSE IF err = "ValidationError" THEN respond(q, 400, "Validation error")
        ELSE IF err = "E11000" THEN respond(q, 400, "Category name already exists")
        ELSE IF r.op = "CategoryPost"
        THEN respond(q, 500, "Server error while creating category")
        ELSE respond(q, 500, "Server error while updating category")

(* POST /api/categories up to Category.findOne.                            *)
CategoryPostBegin(s, rawName) ==
    LET name == trim(rawName)
        r == [op |-> "CategoryPost", pc |-> "save", id |-> NoId, name |-> name,
              err |-> "", status |-> 0, msg |-> ""]
    IN  /\ Free(s)
        /\ Len(db.categories) + PendingInserts("CategoryPost") < MaxCategories
        /\ reqs' = [reqs EXCEPT ![s] =
              IF ~categoryNameValid(name)
              THEN respond(r, 400, "Validation failed")
              ELSE IF findOneByName(db.categories, name, NoId)
              THEN respond(r, 400, "Category name already exists")
              ELSE r]
        /\ UNCHANGED <<db, assets, uploads, msgVars, connVars>>

(* POST /api/categories: new Category(categoryData).save().                *)
CategoryPostSave(s) ==
    LET r == reqs[s]
        category == [live |-> TRUE, createdAt |-> now, name |-> r.name, isActive |-> TRUE]
    IN  /\ r.op = "CategoryPost" /\ r.pc = "save"
        /\ IF categoryNameTaken(db.categories, NoId, r.name)
           THEN /\ reqs' = [reqs EXCEPT ![s] = catchCategoryError(r, "E11000")]
                /\ UNCHANGED db
           ELSE /\ db' = [db EXCEPT !.categories = Append(@, category)]
                /\ reqs' = [reqs EXCEPT ![s] =
                      respond([r EXCEPT !.id = Len(db.categories) + 1], 201,
                              "Category created successfully")]
        /\ UNCHANGED <<assets, uploads, msgVars, connVars>>

NoName == <<>>

(* PUT /api/categories/:id up to Category.findById and the test            *)
(* name && name !== category.name.                                         *)
CategoryPutBegin(s, id, rawName, isActive) ==
    LET name == trim(rawName)
        doc == findById(db.categories, id)
        r == [op |-> "CategoryPut", pc |-> "findOne", id |-> id, name |-> name,
              isActive |-> isActive, doc |-> doc, err |-> "", status |-> 0, msg |-> ""]
    IN  /\ Free(s)
        /\ reqs' = [reqs EXCEPT ![s] =
              IF rawName # NoName /\ ~categoryNameValid(name)
              THEN respond(r, 400, "Validation failed")
              ELSE IF ~isValidObjectId(id)
              THEN catchCategoryError(r, "CastError")
              ELSE IF ~doc.live
              THEN respond(r, 404, "Category not found")
              ELSE IF name # NoName /\ name # doc.name
              THEN r
              ELSE [r EXCEPT !.pc = "save"]]
        /\ UNCHANGED <<db, assets, uploads, msgVars, connVars>>

(* PUT /api/categories/:id: Category.findOne for another holder.           *)
CategoryPutFindOne(s) ==
    LET r == reqs[s]
    IN  /\ r.op = "CategoryPut" /\ r.pc = "findOne"
        /\ reqs' = [reqs EXCEPT ![s] =
              IF findOneByName(db.categories, r.name, r.id)
              THEN respond(r, 400, "Category name already exists")
              ELSE [r EXCEPT !.pc = "save"]]
        /\ UNCHANGED <<db, assets, uploads, msgVars, connVars>>

(* PUT /api/categories/:id: the field updates and category.save().         *)
CategoryPutSave(s) ==
    LET r == reqs[s]
        u1 == IF r.name # NoName THEN [r.doc EXCEPT !.name = r.name] ELSE r.doc
        u2 == IF r.isActive # Absent THEN [u1 EXCEPT !.isActive = bool(r.isActive)] ELSE u1
        stored == findById(db.categories, r.id)
    IN  /\ r.op = "CategoryPut" /\ r.pc = "save"
        /\ IF ~stored.live
           THEN /\ reqs' = [reqs EXCEPT ![s] = catchCategoryError(r, "DocumentNotFoundError")]
                /\ UNCHANGED db
           ELSE IF u2.name # r.doc.name /\ categoryNameTaken(db.categories, r.id, u2.name)
           THEN /\ reqs' = [reqs EXCEPT ![s] = catchCategoryError(r, "E11000")]
                /\ UNCHANGED db
           ELSE /\ db' = [db EXCEPT !.categories[r.id] = applyModified(stored, r.doc, u2)]
                /\ reqs' = [reqs EXCEPT ![s] =
                      respond(r, 200, "Category updated successfully")]
        /\ UNCHANGED <<assets, uploads, msgVars, connVars>>

(* DELETE /api/categories/:id: Category.findById.                          *)
CategoryDeleteBegin(s, id) ==
    LET doc == findById(db.categories, id)
        r == [op |-> "CategoryDelete", pc |-> "count", id |-> id, count |-> 0,
              status |-> 0, msg |-> ""]
    IN  /\ Free(s)
        /\ reqs' = [reqs EXCEPT ![s] =
              IF ~isValidObjectId(id)
              THEN respond(r, 400, "Invalid category ID")
              ELSE IF ~doc.live
              THEN respond(r, 404, "Category not found")
              ELSE r]
        /\ UNCHANGED <<db, assets, uploads, msgVars, connVars>>

(* A guard that lets a category with a single product through.            *)
hasSeveralProducts(productCount) == productCount > 1

(* The guard of DELETE /api/categories/:id on productCount.                *)
hasProducts(productCount) == productCount > 0

(* DELETE /api/categories/:id: Product.countDocuments and the refusal,     *)
(* whose message interpolates productCount (kept in count).                *)
CategoryDeleteCount(s) ==
    LET r == reqs[s]
        productCount == countDocuments(db.products, r.id)
    IN  /\ r.op = "CategoryDelete" /\ r.pc = "count"
        /\ reqs' = [reqs EXCEPT ![s] =
              IF hasProducts(productCount)
              THEN respond([r EXCEPT !.count = productCount], 400,
                           "Cannot delete category. It has ${productCount} products. " \o
                           "Please move or delete the products first.")
              ELSE [r EXCEPT !.pc = "delete", !.count = productCount]]
        /\ UNCHANGED <<db, assets, uploads, msgVars, connVars>>

(* DELETE /api/categories/:id: Category.findByIdAndDelete.                 *)
CategoryDeleteRemove(s) ==
    LET r == reqs[s]
    IN  /\ r.op = "CategoryDelete" /\ r.pc = "delete"
        /\ db' = [db EXCEPT !.categories[r.id] = DeletedDoc]
        /\ reqs' = [reqs EXCEPT ![s] = respond(r, 200, "Category deleted successfully")]
        /\ UNCHANGED <<assets, uploads, msgVars, connVars>>

----------------------------------------------------------------------------
(* The media host (config/cloudinary.js) and the image handling the        *)
(* product, certificate and team routes share.                             *)

NoImage == <<"none", 0>>
filePath(file) == <<"file", file>>
SampleImageUrls == {NoImage, <<"url", 1>>}

DeleteOutcomes == {"ok", "failed"}

(* The three routers' DELETE handlers are the same code over their own     *)
(* model; coll names the collection.                                       *)
AssetColls == {"products", "certificates", "team"}

(* A handler that lets the rejection of deleteImage reach its outer catch. *)
deleteImageUncaught(r, outcome) ==
    IF outcome = "failed"
    THEN respond([r EXCEPT !.assetCall = outcome], 500, "Server error while updating")
    ELSE [r EXCEPT !.assetCall = outcome,
                   !.pc = IF r.op = "Delete" THEN "delete" ELSE "save"]

(* try { await deleteImage(publicId) } catch (error) { console.error }:    *)
(* whatever the outcome the handler goes on to its write.                  *)
afterDeleteImage(r, outcome) ==
    [r EXCEPT !.assetCall = outcome,
              !.pc = IF r.op = "Delete" THEN "delete" ELSE "save"]

(* deleteImage(doc.imagePublicId): cloudinary.uploader.destroy removes the *)
(* asset or rejects, and deleteAsset rethrows the rejection.               *)
DeleteImage(s, outcome) ==
    LET r == reqs[s]
    IN  /\ r.pc = "deleteImage"
        /\ assets' = IF outcome = "ok" THEN assets \ {r.doc.imagePublicId} ELSE assets
        /\ reqs' = [reqs EXCEPT ![s] = afterDeleteImage(r, outcome)]
        /\ UNCHANGED <<db, uploads, msgVars, connVars>>

deletedMessage(coll) ==
    IF coll = "products" THEN "Product deleted successfully"
    ELSE IF coll = "certificates" THEN "Certificate deleted successfully"
    ELSE "Team member deleted successfully"

invalidIdMessage(coll) ==
    IF coll = "products" THEN "Invalid product ID"
    ELSE IF coll = "certificates" THEN "Invalid certificate ID"
    ELSE "Invalid team member ID"

notFoundMessage(coll) ==
    IF coll = "products" THEN "Product not found"
    ELSE IF coll = "certificates" THEN "Certificate not found"
    ELSE "Team member not found"

(* DELETE /:id up to Model.findById and the test on imagePublicId.         *)
DeleteBegin(s, coll, id) ==
    LET doc == findById(db[coll], id)
        r == [op |-> "Delete", coll |-> coll, pc |-> "delete", id |-> id, doc |-> doc,
              assetCall |-> "none", status |-> 0, msg |-> ""]
    IN  /\ Free(s)
        /\ reqs' = [reqs EXCEPT ![s] =
              IF ~isValidObjectId(id)
              THEN respond(r, 400, invalidIdMessage(coll))
              ELSE IF ~doc.live
              THEN respond(r, 404, notFoundMessage(coll))
              ELSE IF doc.imagePublicId # NoAsset
              THEN [r EXCEPT !.pc = "deleteImage"]
              ELSE r]
        /\ UNCHANGED <<db, assets, uploads, msgVars, connVars>>

(* DELETE /:id: Model.findByIdAndDelete and the answer.                    *)
DeleteRemove(s) ==
    LET r == reqs[s]
    IN  /\ r.op = "Delete" /\ r.pc = "delete"
        /\ db' = [db EXCEPT ![r.coll][r.id] = DeletedDoc]
        /\ reqs' = [reqs EXCEPT ![s] = respond(r, 200, deletedMessage(r.coll))]
        /\ UNCHANGED <<assets, uploads, msgVars, connVars>>

(* PUT of a certificate or a team member: if (req.file) ... else if        *)
(* (req.body.imageUrl && req.body.imageUrl !== doc.image) ...              *)
replacesImage(r) ==
    \/ r.file # NoAsset
    \/ r.imageUrl # NoImage /\ r.imageUrl # r.doc.image

imageBranch(r) ==
    IF replacesImage(r) /\ r.doc.imagePublicId # NoAsset
    THEN [r EXCEPT !.pc = "deleteImage"]
    ELSE [r EXCEPT !.pc = "save"]

(* ... doc.image = req.file.path; doc.imagePublicId = req.file.filename,   *)
(* or doc.image = req.body.imageUrl; doc.imagePublicId = undefined.        *)
withImage(r, doc) ==
    IF r.file # NoAsset
    THEN [doc EXCEPT !.image = filePath(r.file), !.imagePublicId = r.file]
    ELSE IF r.imageUrl # NoImage /\ r.imageUrl # r.doc.image
    THEN [doc EXCEPT !.image = r.imageUrl, !.imagePublicId = NoAsset]
    ELSE doc

----------------------------------------------------------------------------
(* Certificate routes (routes/certificates.js).                            *)

(* POST /api/certificates: the image test and certificate.save().          *)
CertificatePost(s, hasFile, imageUrl) ==
    LET file == uploadedFile(hasFile)
        r == [op |-> "CertificatePost", pc |-> "save", id |-> NoId, file |-> file,
              imageUrl |-> imageUrl, queried |-> FALSE, status |-> 0, msg |-> ""]
        certificate == [live |-> TRUE, createdAt |-> now,
                        image |-> IF hasFile THEN filePath(file) ELSE imageUrl,
                        imagePublicId |-> file, isActive |-> TRUE]
    IN  /\ Free(s)
        /\ Len(db.certificates) < MaxCertificates
        /\ Upload(hasFile)
        /\ IF ~hasFile /\ imageUrl = NoImage
           THEN /\ reqs' = [reqs EXCEPT ![s] =
                      respond(r, 400, "Certificate image is required")]
                /\ UNCHANGED db
           ELSE /\ db' = [db EXCEPT !.certificates = Append(@, certificate)]
                /\ reqs' = [reqs EXCEPT ![s] =
                      respond([r EXCEPT !.queried = TRUE,
                                        !.id = Len(db.certificates) + 1], 201,
                              "Certificate created successfully")]
        /\ UNCHANGED <<msgVars, connVars>>

(* PUT /api/certificates/:id up to Certificate.findById and the image      *)
(* branch.                                                                 *)
CertificatePutBegin(s, id, hasFile, imageUrl, isActive) ==
    LET doc == findById(db.certificates, id)
        r == [op |-> "CertificatePut", pc |-> "save", id |-> id,
              file |-> uploadedFile(hasFile), imageUrl |-> imageUrl,
              isActive |-> isActive, doc |-> doc,
              assetCall |-> "none", status |-> 0, msg |-> ""]
    IN  /\ Free(s)
        /\ Upload(hasFile)
        /\ reqs' = [reqs EXCEPT ![s] =
              IF ~isValidObjectId(id)
              THEN respond(r, 400, "Invalid certificate ID")
              ELSE IF ~doc.live
              THEN respond(r, 404, "Certificate not found")
              ELSE imageBranch(r)]
        /\ UNCHANGED <<db, msgVars, connVars>>

(* PUT /api/certificates/:id: the field updates and certificate.save().    *)
CertificatePutSave(s) ==
    LET r == reqs[s]
        u1 == withImage(r, r.doc)
        u2 == IF r.isActive # Absent THEN [u1 EXCEPT !.isActive = bool(r.isActive)] ELSE u1
        stored == findById(db.certificates, r.id)
    IN  /\ r.op = "CertificatePut" /\ r.pc = "save"
        /\ IF ~stored.live
           THEN /\ reqs' = [reqs EXCEPT ![s] =
                      respond(r, 500, "Server error while updating certificate")]
                /\ UNCHANGED db
           ELSE /\ db' = [db EXCEPT !.certificates[r.id] =
                                       applyModified(stored, r.doc, u2)]
                /\ reqs' = [reqs EXCEPT ![s] =
                      respond(r, 200, "Certificate updated successfully")]
        /\ UNCHANGED <<assets, uploads, msgVars, connVars>>

----------------------------------------------------------------------------
(* Team routes (routes/team.js) and the TeamMember model.                  *)

NoEmail == <<>>

(* body('email').isEmail().normalizeEmail(): for an address outside the    *)
(* mail providers it knows, normalizeEmail lower-cases it.                 *)
normalizeEmail(email) == toLowerCase(email)

(* teamMemberSchema.email: lowercase: true, trim: true.                    *)
castEmail(email) == toLowerCase(trim(email))

(* TeamMember.findOne({ email, _id: { $ne: except } })                     *)
findOneByEmail(team, email, except) ==
    \E j \in DOMAIN team :
        j # except /\ team[j].live /\ team[j].email = castEmail(email)

(* A collection without the unique index on email.                         *)
noEmailIndex(team, id, email) == FALSE

(* teamMemberSchema.index({ email: 1 }, { unique: true }): the write of    *)
(* email to document id is refused with error code 11000.                  *)
emailIndexRefuses(team, id, email) ==
    \E j \in DOMAIN team : j # id /\ team[j].live /\ team[j].email = email

(* The catch blocks of the team routes.                                    *)
catchTeamError(r, err) ==
    LET q == [r EXCEPT !.err = err]
    IN  IF err = "CastError" THEN respond(q, 400, "Invalid team member ID")
        ELSE IF err = "ValidationError" THEN respond(q, 400, "Validation error")
        ELSE IF err = "E11000" THEN respond(q, 400, "Email already exists")
        ELSE IF r.op = "TeamPost"
        THEN respond(q, 500, "Server error while creating team member")
        ELSE respond(q, 500, "Server error while updating team member")

(* body('email').isEmail(): one @ after a local part, no blank, and a      *)
(* domain with a dot before a top-level label of two characters or more.   *)
isEmail(email) ==
    \E i \in DOMAIN email :
        /\ email[i] = "@"
        /\ i > 1
        /\ \A j \in DOMAIN email : (email[j] = "@" => j = i) /\ email[j] # " "
        /\ \E k \in (i + 2)..(Len(email) - 2) : email[k] = "."

(* POST /api/team up to TeamMember.findOne and the image test.             *)
TeamPostBegin(s, rawEmail, hasFile, imageUrl) ==
    LET email == normalizeEmail(rawEmail)
        r == [op |-> "TeamPost", pc |-> "save", id |-> NoId, email |-> email,
              file |-> uploadedFile(hasFile), imageUrl |-> imageUrl,
              err |-> "", queried |-> FALSE, status |-> 0, msg |-> ""]
        q == [r EXCEPT !.queried = TRUE]
    IN  /\ Free(s)
        /\ Len(db.team) + PendingInserts("TeamPost") < MaxTeam
        /\ Upload(hasFile)
        /\ reqs' = [reqs EXCEPT ![s] =
              IF ~isEmail(rawEmail)
              THEN respond(r, 400, "Validation failed")
              ELSE IF findOneByEmail(db.team, email, NoId)
              THEN respond(q, 400, "Email already exists")
              ELSE IF ~hasFile /\ imageUrl = NoImage
              THEN respond(q, 400, "Team member image is required")
              ELSE q]
        /\ UNCHANGED <<db, msgVars, connVars>>

(* POST /api/team: new TeamMember(teamMemberData).save().                  *)
TeamPostSave(s) ==
    LET r == reqs[s]
        teamMember == [live |-> TRUE, createdAt |-> now, email |-> castEmail(r.email),
                       image |-> IF r.file # NoAsset THEN filePath(r.file) ELSE r.imageUrl,
                       imagePublicId |-> r.file, isActive |-> TRUE]
    IN  /\ r.op = "TeamPost" /\ r.pc = "save"
        /\ IF emailIndexRefuses(db.team, NoId, teamMember.email)
           THEN /\ reqs' = [reqs EXCEPT ![s] = catchTeamError(r, "E11000")]
                /\ UNCHANGED db
           ELSE /\ db' = [db EXCEPT !.team = Append(@, teamMember)]
                /\ reqs' = [reqs EXCEPT ![s] =
                      respond([r EXCEPT !.id = Len(db.team) + 1], 201,
                              "Team member created successfully")]
        /\ UNCHANGED <<assets, uploads, msgVars, connVars>>

(* PUT /api/team/:id up to TeamMember.findById and the test                *)
(* email && email !== teamMember.email.                                    *)
TeamPutBegin(s, id, rawEmail, hasFile, imageUrl, isActive) ==
    LET email == normalizeEmail(rawEmail)
        doc == findById(db.team, id)
        r == [op |-> "TeamPut", pc |-> "findOne", id |-> id, email |-> email,
              file |-> uploadedFile(hasFile), imageUrl |-> imageUrl,
              isActive |-> isActive, doc |-> doc,
              assetCall |-> "none", err |-> "", status |-> 0, msg |-> ""]
    IN  /\ Free(s)
        /\ Upload(hasFile)
        /\ reqs' = [reqs EXCEPT ![s] =
              IF ~isValidObjectId(id)
              THEN catchTeamError(r, "CastError")
              ELSE IF ~doc.live
              THEN respond(r, 404, "Team member not found")
              ELSE IF email # NoEmail /\ email # doc.email
              THEN r
              ELSE imageBranch(r)]
        /\ UNCHANGED <<db, msgVars, connVars>>

(* PUT /api/team/:id: TeamMember.findOne for another holder.               *)
TeamPutFindOne(s) ==
    LET r == reqs[s]
    IN  /\ r.op = "TeamPut" /\ r.pc = "findOne"
        /\ reqs' = [reqs EXCEPT ![s] =
              IF findOneByEmail(db.team, r.email, r.id)
              THEN respond(r, 400, "Email already exists")
              ELSE imageBranch(r)]
        /\ UNCHANGED <<db, assets, uploads, msgVars, connVars>>

(* PUT /api/team/:id: the field updates and teamMember.save().             *)
TeamPutSave(s) ==
    LET r == reqs[s]
        u1 == withImage(r, r.doc)
        u2a == IF r.email # NoEmail THEN [u1 EXCEPT !.email = castEmail(r.email)] ELSE u1
        u2 == IF r.isActive # Absent THEN [u2a EXCEPT !.isActive = bool(r.isActive)] ELSE u2a
        stored == findById(db.team, r.id)
    IN  /\ r.op = "TeamPut" /\ r.pc = "save"
        /\ IF ~stored.live
           THEN /\ reqs' = [reqs EXCEPT ![s] = catchTeamError(r, "DocumentNotFoundError")]
                /\ UNCHANGED db
           ELSE IF u2.email # r.doc.email /\ emailIndexRefuses(db.team, r.id, u2.email)
           THEN /\ reqs' = [reqs EXCEPT ![s] = catchTeamError(r, "E11000")]
                /\ UNCHANGED db
           ELSE /\ db' = [db EXCEPT !.team[r.id] = applyModified(stored, r.doc, u2)]
                /\ reqs' = [reqs EXCEPT ![s] =
                      respond(r, 200, "Team member updated successfully")]
        /\ UNCHANGED <<assets, uploads, msgVars, connVars>>

----------------------------------------------------------------------------
(* Contact routes (routes/contact.js, first router) and the Contact model. *)

ExcludedTypes ==
    { <<"w", "e", "b", "s", "i", "t", "e">>, <<"s", "o", "c", "i", "a", "l">>,
      <<"f", "a", "c", "e", "b", "o", "o", "k">>, <<"t", "w", "i", "t", "t", "e", "r">>,
      <<"i", "n", "s", "t", "a", "g", "r", "a", "m">>,
      <<"l", "i", "n", "k", "e", "d", "i", "n">>, <<"y", "o", "u", "t", "u", "b", "e">>,
      <<"t", "i", "k", "t", "o", "k">> }

(* A test that compares the type as written.                               *)
isExcludedExactCase(value) == value \in ExcludedTypes

(* excludedTypes.includes(value.toLowerCase()), in the route's custom      *)
(* validator and in the schema's.                                          *)
isExcludedType(value) == toLowerCase(value) \in ExcludedTypes

MaxTypeLen == 50
MaxLabelLen == 100

NoType == <<>>
NoLabel == <<>>

(* body('type').trim().isLength({ min: 1, max: 50 }).custom(...) and       *)
(* body('label').trim().isLength({ min: 1, max: 100 }) on trimmed values.  *)
contactTypeValid(type) ==
    Len(type) >= 1 /\ Len(type) <= MaxTypeLen /\ ~isExcludedType(type)

contactLabelValid(label) == Len(label) >= 1 /\ Len(label) <= MaxLabelLen

(* contactSchema: type and label required, trimmed, type not excluded.     *)
contactSchemaValid(doc) ==
    /\ trim(doc.type) # <<>> /\ Len(trim(doc.type)) <= MaxTypeLen
    /\ ~isExcludedType(trim(doc.type))
    /\ trim(doc.label) # <<>> /\ Len(trim(doc.label)) <= MaxLabelLen

(* POST /api/contact: validation, new Contact(contactData).save(); the     *)
(* request keeps type and label as sent.                                   *)
ContactPost(s, rawType, rawLabel) ==
    LET type == trim(rawType)
        label == trim(rawLabel)
        r == [op |-> "ContactPost", pc |-> "save", id |-> NoId, type |-> rawType,
              label |-> rawLabel, queried |-> FALSE, status |-> 0, msg |-> ""]
        contact == [live |-> TRUE, createdAt |-> now, type |-> trim(type), label |-> trim(label)]
    IN  /\ Free(s)
        /\ Len(db.contacts) < MaxContacts
        /\ IF ~(contactTypeValid(type) /\ contactLabelValid(label))
           THEN /\ reqs' = [reqs EXCEPT ![s] = respond(r, 400, "Validation failed")]
                /\ UNCHANGED db
           ELSE IF ~contactSchemaValid(contact)
           THEN /\ reqs' = [reqs EXCEPT ![s] =
                      respond([r EXCEPT !.queried = TRUE], 400, "Validation error")]
                /\ UNCHANGED db
           ELSE /\ db' = [db EXCEPT !.contacts = Append(@, contact)]
                /\ reqs' = [reqs EXCEPT ![s] =
                      respond([r EXCEPT !.queried = TRUE, !.id = Len(db.contacts) + 1],
                              201, "Contact method created successfully")]
        /\ UNCHANGED <<assets, uploads, msgVars, connVars>>

(* PUT /api/contact/:id: validation, then Contact.findById.                *)
ContactPutBegin(s, id, rawType, rawLabel) ==
    LET type == trim(rawType)
        label == trim(rawLabel)
        doc == findById(db.contacts, id)
        r == [op |-> "ContactPut", pc |-> "save", id |-> id, type |-> rawType,
              label |-> rawLabel, doc |-> doc, queried |-> FALSE,
              status |-> 0, msg |-> ""]
    IN  /\ Free(s)
        /\ reqs' = [reqs EXCEPT ![s] =
              IF \/ rawType # NoType /\ ~contactTypeValid(type)
                 \/ rawLabel # NoLabel /\ ~contactLabelValid(label)
              THEN respond(r, 400, "Validation failed")
              ELSE IF ~isValidObjectId(id)
              THEN respond([r EXCEPT !.queried = TRUE], 400, "Invalid contact ID")
              ELSE IF ~doc.live
              THEN respond([r EXCEPT !.queried = TRUE], 404, "Contact method not found")
              ELSE [r EXCEPT !.queried = TRUE]]
        /\ UNCHANGED <<db, assets, uploads, msgVars, connVars>>

(* PUT /api/contact/:id: the field updates and contact.save().             *)
ContactPutSave(s) ==
    LET r == reqs[s]
        u1 == IF r.type # NoType THEN [r.doc EXCEPT !.type = trim(r.type)] ELSE r.doc
        u2 == IF r.label # NoLabel THEN [u1 EXCEPT !.label = trim(r.label)] ELSE u1
        stored == findById(db.contacts, r.id)
    IN  /\ r.op = "ContactPut" /\ r.pc = "save"
        /\ IF ~contactSchemaValid(u2)
           THEN /\ reqs' = [reqs EXCEPT ![s] = respond(r, 400, "Validation error")]
                /\ UNCHANGED db
           ELSE IF ~stored.live
           THEN /\ reqs' = [reqs EXCEPT ![s] =
                      respond(r, 500, "Server error while updating contact method")]
                /\ UNCHANGED db
           ELSE /\ db' = [db EXCEPT !.contacts[r.id] = applyModified(stored, r.doc, u2)]
                /\ reqs' = [reqs EXCEPT ![s] =
                      respond(r, 200, "Contact method updated successfully")]
        /\ UNCHANGED <<assets, uploads, msgVars, connVars>>

SortFields == {"type", "label", "createdAt"}
SortOrders == {"asc", "desc"}

(* Characters in code order, by which the store compares strings.          *)
CodeOrder == <<" ">> \o UpperChars \o LowerChars

codeOf(c) == CHOOSE i \in DOMAIN CodeOrder : CodeOrder[i] = c

RECURSIVE stringLeq(_, _)
stringLeq(a, b) ==
    IF a = <<>> THEN TRUE
    ELSE IF b = <<>> THEN FALSE
    ELSE IF Head(a) = Head(b) THEN stringLeq(Tail(a), Tail(b))
    ELSE codeOf(Head(a)) < codeOf(Head(b))

(* The order of two contacts on a sort field; createdAt follows _id.       *)
keyLeq(field, i, j) ==
    IF field = "createdAt" THEN i <= j
    ELSE IF field = "type" THEN stringLeq(db.contacts[i].type, db.contacts[j].type)
    ELSE stringLeq(db.contacts[i].label, db.contacts[j].label)

(* A sort that is ascending whatever sortOrder says.                       *)
alwaysAscending(sortOrder) == 1

(* sortOrder === 'desc' ? -1 : 1                                           *)
sortDirection(sortOrder) == IF sortOrder = "desc" THEN 0 - 1 ELSE 1

(* .sort(sortObj): any order of the documents the field and direction      *)
(* allow; documents equal on the field come in either order.               *)
sortedBy(seq, field, dir) ==
    \A k \in 1..(Len(seq) - 1) :
        IF dir = 1 THEN keyLeq(field, seq[k], seq[k + 1])
        ELSE keyLeq(field, seq[k + 1], seq[k])

Orderings(S) ==
    {f \in [1..Cardinality(S) -> S] : \A a, b \in 1..Cardinality(S) : a # b => f[a] # f[b]}

(* value || dflt, for a query parameter that is a sort field or order.     *)
orElse(value, dflt) == IF value # Absent THEN value ELSE dflt

(* GET /api/contact: validation, the $nin filter, the sort object, find    *)
(* and the answer with its meta.                                           *)
ContactList(s, sortBy, sortOrder) ==
    LET field == IF sortBy # Absent THEN sortBy ELSE "createdAt"
        dir == IF sortBy # Absent THEN sortDirection(sortOrder) ELSE 0 - 1
        r == [op |-> "ContactList", pc |-> "done", sortBy |-> sortBy,
              sortOrder |-> sortOrder, queried |-> FALSE, data |-> <<>>,
              sortObj |-> [field |-> field, dir |-> dir],
              meta |-> [sortBy |-> orElse(sortBy, "createdAt"),
                        sortOrder |-> orElse(sortOrder, "desc")],
              status |-> 0, msg |-> ""]
        found == {i \in DOMAIN db.contacts :
                     db.contacts[i].live /\ db.contacts[i].type \notin ExcludedTypes}
    IN  /\ Free(s)
        /\ IF \/ sortBy # Absent /\ sortBy \notin SortFields
              \/ sortOrder # Absent /\ sortOrder \notin SortOrders
           THEN reqs' = [reqs EXCEPT ![s] = respond(r, 400, "Validation failed")]
           ELSE \E data \in Orderings(found) :
                   /\ sortedBy(data, field, dir)
                   /\ reqs' = [reqs EXCEPT ![s] =
                         respond([r EXCEPT !.queried = TRUE, !.data = data], 200, "")]
        /\ UNCHANGED <<db, assets, uploads, msgVars, connVars>>

----------------------------------------------------------------------------
(* The list endpoints: GET / of products, certificates, team, categories   *)
(* and messages. Query parameters are strings of characters.               *)

NoParam == <<>>

Digits == <<"0", "1", "2", "3", "4", "5", "6", "7", "8", "9">>

isDigit(c) == \E i \in DOMAIN Digits : Digits[i] = c

digitValue(c) == (CHOOSE i \in DOMAIN Digits : Digits[i] = c) - 1

(* The value of the digits str starts with, after acc.                     *)
RECURSIVE digitsValue(_, _)
digitsValue(str, acc) ==
    IF str = <<>> \/ ~isDigit(Head(str))
    THEN acc
    ELSE digitsValue(Tail(str), acc * 10 + digitValue(Head(str)))

unsigned(str) ==
    IF str # <<>> /\ Head(str) \in {"-", "+"} THEN Tail(str) ELSE str

(* parseInt(str) is NaN: no digit after the optional sign (undefined too). *)
isNaN(str) == unsigned(str) = <<>> \/ ~isDigit(Head(unsigned(str)))

(* parseInt(str) where it is a number.                                     *)
parseInt(str) ==
    IF Head(str) = "-" THEN 0 - digitsValue(unsigned(str), 0)
    ELSE digitsValue(unsigned(str), 0)

(* parseInt(str) || dflt: NaN and 0 are falsy.                             *)
parseIntOr(str, dflt) ==
    IF isNaN(str) THEN dflt
    ELSE IF parseInt(str) = 0 THEN dflt
    ELSE parseInt(str)

(* validator's isInt format: optional sign, then 0 or digits without a     *)
(* leading zero.                                                           *)
isInt(str) ==
    LET u == unsigned(str)
    IN  /\ u # <<>>
        /\ \A i \in DOMAIN u : isDigit(u[i])
        /\ (Len(u) = 1 \/ Head(u) # "0")

MinPage == 1
MinLimit == 1
MaxLimit == 100

(* query('page').optional().isInt({ min: 1 })                              *)
pageValid(page) == page = NoParam \/ (isInt(page) /\ parseInt(page) >= MinPage)

(* query('limit').optional().isInt({ min: 1, max: 100 })                   *)
limitValid(limit) ==
    limit = NoParam
    \/ (isInt(limit) /\ parseInt(limit) >= MinLimit /\ parseInt(limit) <= MaxLimit)

(* GET /api/products declares no validators; the other routers do.         *)
validatesPaging(coll) == coll # "products"

DefaultLimitProducts == 100
DefaultLimitCategories == 50
DefaultLimit == 10

defaultLimit(coll) ==
    IF coll = "products" THEN DefaultLimitProducts
    ELSE IF coll = "categories" THEN DefaultLimitCategories
    ELSE DefaultLimit

(* A page count that rounds down.                                          *)
floorPages(total, limit) == total \div limit

(* Math.ceil(total / limit)                                                *)
ceilPages(total, limit) ==
    IF limit > 0 THEN 0 - ((0 - total) \div limit) ELSE 0 - (total \div (0 - limit))

docsOf(coll) == IF coll = "messages" THEN messages ELSE db[coll]

(* The flag each router's list filters on: inStock, isRead, isActive.      *)
flagOf(coll, doc) ==
    IF coll = "products" THEN doc.inStock
    ELSE IF coll = "messages" THEN doc.isRead
    ELSE doc.isActive

(* A filter that takes an absent parameter for 'false'.                    *)
filterAbsentAsFalse(param, value) == value = (param = "true")

(* if (flag !== undefined) filter.flag = flag === 'true'                   *)
filterFlag(param, value) == param = Absent \/ value = (param = "true")

(* Model.find(filter): the stored documents the filter matches; replied is *)
(* the second flag of the message list.                                    *)
matching(coll, flag, replied) ==
    {i \in DOMAIN docsOf(coll) :
        /\ (coll = "messages" \/ docsOf(coll)[i].live)
        /\ filterFlag(flag, flagOf(coll, docsOf(coll)[i]))
        /\ (coll = "messages" => filterFlag(replied, docsOf(coll)[i].replied))}

Max(S) == CHOOSE m \in S : \A x \in S : x <= m

(* .sort({ createdAt: -1 }): documents are created in _id order.           *)
RECURSIVE newestFirst(_)
newestFirst(S) ==
    IF S = {} THEN <<>> ELSE <<Max(S)>> \o newestFirst(S \ {Max(S)})

abs(n) == IF n < 0 THEN 0 - n ELSE n

(* .skip(skip).limit(limit); a negative limit is that limit in one batch.  *)
skipLimit(seq, skip, limit) ==
    IF skip >= Len(seq) THEN <<>>
    ELSE SubSeq(seq, skip + 1,
                IF skip + abs(limit) < Len(seq) THEN skip + abs(limit) ELSE Len(seq))

(* An aggregation that counts every product of the category as in stock.   *)
productCountsAllInStock(category) ==
    LET of == {i \in DOMAIN db.products :
                  db.products[i].live /\ db.products[i].category = category}
    IN  [productCount |-> Cardinality(of), inStockCount |-> Cardinality(of)]

(* Product.aggregate $group on category: count and inStockCount, with the  *)
(* || 0 of the lookup.                                                     *)
productCounts(category) ==
    LET of == {i \in DOMAIN db.products :
                  db.products[i].live /\ db.products[i].category = category}
    IN  [productCount |-> Cardinality(of),
         inStockCount |-> Cardinality({i \in of : db.products[i].inStock = TRUE})]

(* GET /: validation, page / limit / skip, the filter, find, the counts    *)
(* (categories), countDocuments and the answer; data holds the _ids.       *)
List(s, coll, page, limit, flag, replied) ==
    LET usedPage == parseIntOr(page, 1)
        usedLimit == parseIntOr(limit, defaultLimit(coll))
        skip == (usedPage - 1) * usedLimit
        found == newestFirst(matching(coll, flag, replied))
        data == skipLimit(found, skip, usedLimit)
        r == [op |-> "List", pc |-> "done", coll |-> coll, page |-> page, limit |-> limit,
              flag |-> flag, replied |-> replied, queried |-> FALSE,
              usedPage |-> usedPage, usedLimit |-> usedLimit,
              data |-> <<>>, counts |-> <<>>, total |-> 0, pages |-> 0,
              status |-> 0, msg |-> ""]
    IN  /\ Free(s)
        /\ reqs' = [reqs EXCEPT ![s] =
              IF validatesPaging(coll) /\ ~(pageValid(page) /\ limitValid(limit))
              THEN respond(r, 400, "Validation failed")
              ELSE IF skip < 0
              THEN respond([r EXCEPT !.queried = TRUE], 500, "Server error")
              ELSE respond([r EXCEPT !.queried = TRUE,
                                     !.data = data,
                                     !.counts = IF coll = "categories"
                                                THEN [k \in DOMAIN data |->
                                                         productCounts(data[k])]
                                                ELSE <<>>,
                                     !.total = Len(found),
                                     !.pages = ceilPages(Len(found), usedLimit)],
                           200, "")]
        /\ UNCHANGED <<db, assets, uploads, msgVars, connVars>>

----------------------------------------------------------------------------
(* Requests the model issues against the catalog.                          *)

CategoryIds == 1..(MaxSeeded + 1) \cup {BadId}
ProductIds == 1..(MaxProducts + 1) \cup {BadId}

(* Product create / update and category delete, without image or price.    *)
RefsNext ==
    \/ \E s \in Slots, c \in CategoryIds \cup {NoId} :
          ProductPostBegin(s, c, FALSE, Absent)
    \/ \E s \in Slots : ProductPostSave(s)
    \/ \E s \in Slots, id \in ProductIds, c \in CategoryIds \cup {NoId} :
          ProductPutBegin(s, id, c, FALSE, Absent, Absent)
    \/ \E s \in Slots : ProductPutFindCategory(s)
    \/ \E s \in Slots : ProductPutSave(s)
    \/ \E s \in Slots, id \in CategoryIds : CategoryDeleteBegin(s, id)
    \/ \E s \in Slots : CategoryDeleteCount(s)
    \/ \E s \in Slots : CategoryDeleteRemove(s)

SampleNames ==
    { <<"H", "e", "r", "b", "s">>, <<"h", "e", "r", "b", "s", " ">>,
      <<"S", "e", "e", "d", "s">> }

(* Category create and update, racing each other.                          *)
CatNamesNext ==
    \/ \E s \in Slots, n \in SampleNames : CategoryPostBegin(s, n)
    \/ \E s \in Slots : CategoryPostSave(s)
    \/ \E s \in Slots, id \in 1..(MaxCategories + 1), n \in SampleNames \cup {NoName} :
          CategoryPutBegin(s, id, n, Absent)
    \/ \E s \in Slots : CategoryPutFindOne(s)
    \/ \E s \in Slots : CategoryPutSave(s)

SampleEmails ==
    { <<"a", "@", "x", ".", "i", "o">>, <<"A", "@", "x", ".", "i", "o">>,
      <<"b", "@", "x", ".", "i", "o">> }

(* Team create and update, racing each other, with image URLs only.        *)
TeamNext ==
    \/ \E s \in Slots, e \in SampleEmails : TeamPostBegin(s, e, FALSE, <<"url", 1>>)
    \/ \E s \in Slots : TeamPostSave(s)
    \/ \E s \in Slots, id \in 1..(MaxTeam + 1), e \in SampleEmails \cup {NoEmail} :
          TeamPutBegin(s, id, e, FALSE, NoImage, Absent)
    \/ \E s \in Slots : TeamPutFindOne(s)
    \/ \E s \in Slots : TeamPutSave(s)

AssetPrices == {Absent, "-1"}

(* The slot that serves the requests of the image-carrying routes, one at  *)
(* a time.                                                                 *)
Sequential == {1}

(* Create, update and delete of products, certificates and team members    *)
(* with image files, the media host answering either way.                  *)
AssetsNext ==
    \/ \E s \in Sequential, f \in BOOLEAN : ProductPostBegin(s, 1, f, Absent)
    \/ \E s \in Sequential : ProductPostSave(s)
    \/ \E s \in Sequential, f \in BOOLEAN, p \in AssetPrices :
          ProductPutBegin(s, 1, NoId, f, p, Absent)
    \/ \E s \in Sequential : ProductPutSave(s)
    \/ \E s \in Sequential, f \in BOOLEAN, u \in SampleImageUrls : CertificatePost(s, f, u)
    \/ \E s \in Sequential, f \in BOOLEAN, u \in SampleImageUrls :
          CertificatePutBegin(s, 1, f, u, Absent)
    \/ \E s \in Sequential : CertificatePutSave(s)
    \/ \E s \in Sequential, f \in BOOLEAN :
          TeamPostBegin(s, <<"a", "@", "x", ".", "i", "o">>, f, <<"url", 1>>)
    \/ \E s \in Sequential : TeamPostSave(s)
    \/ \E s \in Sequential, f \in BOOLEAN, u \in SampleImageUrls :
          TeamPutBegin(s, 1, NoEmail, f, u, Absent)
    \/ \E s \in Sequential : TeamPutSave(s)
    \/ \E s \in Sequential, coll \in AssetColls : DeleteBegin(s, coll, 1)
    \/ \E s \in Sequential, outcome \in DeleteOutcomes : DeleteImage(s, outcome)
    \/ \E s \in Sequential : DeleteRemove(s)

SamplePages ==
    {NoParam, <<"2">>, <<"3">>, <<"0">>, <<"-", "1">>}

SampleLimits ==
    {NoParam, <<"1">>, <<"2">>, <<"1", "0", "0", "0">>}

ListColls == {"products", "certificates", "team", "categories", "messages"}

FlagParams == {Absent, "true", "false"}

HelloText == <<"h", "i">>

TwoEmails == {<<"a", "@", "x", ".", "i", "o">>, <<"b", "@", "x", ".", "i", "o">>}

(* Every list endpoint paged over a store that creates fill.               *)
PagingNext ==
    \/ \E s \in Sequential : ProductPostBegin(s, 1, FALSE, Absent)
    \/ \E s \in Sequential : ProductPostSave(s)
    \/ \E s \in Sequential : CertificatePost(s, FALSE, <<"url", 1>>)
    \/ \E s \in Sequential, e \in TwoEmails : TeamPostBegin(s, e, FALSE, <<"url", 1>>)
    \/ \E s \in Sequential : TeamPostSave(s)
    \/ PostMessage(SenderName, HelloText, HelloText, Absent)
    \/ \E s \in Sequential, coll \in ListColls, p \in SamplePages, l \in SampleLimits :
          List(s, coll, p, l, Absent, Absent)

(* Every list endpoint filtered by its flag over a store whose flags       *)
(* updates change.                                                         *)
FiltersNext ==
    \/ \E s \in Sequential : ProductPostBegin(s, 1, FALSE, Absent)
    \/ \E s \in Sequential : ProductPostSave(s)
    \/ \E s \in Sequential, id \in 1..MaxProducts, f \in {"true", "false"} :
          ProductPutBegin(s, id, NoId, FALSE, Absent, f)
    \/ \E s \in Sequential : ProductPutSave(s)
    \/ \E s \in Sequential, id \in 1..MaxSeeded, f \in {"true", "false"} :
          CategoryPutBegin(s, id, NoName, f)
    \/ \E s \in Sequential : CategoryPutSave(s)
    \/ \E s \in Sequential :
          TeamPostBegin(s, <<"a", "@", "x", ".", "i", "o">>, FALSE, <<"url", 1>>)
    \/ \E s \in Sequential : TeamPostSave(s)
    \/ \E s \in Sequential, f \in {"true", "false"} :
          TeamPutBegin(s, 1, NoEmail, FALSE, NoImage, f)
    \/ \E s \in Sequential : TeamPutSave(s)
    \/ PostMessage(SenderName, HelloText, HelloText, Absent)
    \/ \E f \in {"true", "false"} : PutMessage(1, f, Absent, Absent, Absent)
    \/ \E f \in {"true", "false"} : PutMessage(1, Absent, f, Absent, Absent)
    \/ \E s \in Sequential, coll \in ListColls \ {"certificates"}, f \in FlagParams :
          List(s, coll, NoParam, NoParam, f, Absent)
    \/ \E s \in Sequential, f \in FlagParams, g \in FlagParams :
          List(s, "messages", NoParam, NoParam, f, g)

(* The category list with its product counts over products that are        *)
(* created, moved between categories and taken out of stock.               *)
CountsNext ==
    \/ \E s \in Sequential, c \in 1..MaxSeeded : ProductPostBegin(s, c, FALSE, Absent)
    \/ \E s \in Sequential : ProductPostSave(s)
    \/ \E s \in Sequential, id \in 1..MaxProducts, c \in 0..MaxSeeded, f \in FlagParams :
          ProductPutBegin(s, id, c, FALSE, Absent, f)
    \/ \E s \in Sequential : ProductPutFindCategory(s)
    \/ \E s \in Sequential : ProductPutSave(s)
    \/ \E s \in Sequential, l \in {NoParam, <<"1">>} :
          List(s, "categories", NoParam, l, Absent, Absent)

SampleTypes ==
    { <<"p", "h", "o", "n", "e">>, <<"e", "m", "a", "i", "l">>,
      <<"F", "a", "c", "e", "b", "o", "o", "k">>, <<" ", "t", "i", "k", "t", "o", "k">> }

SampleLabels == { <<"a">>, <<"B">> }

SampleSortBy == {Absent, "type", "label", "createdAt", "value"}
SampleSortOrder == {Absent, "asc", "desc", "down"}

(* Contact create, update and list, and the other lists in their default   *)
(* order.                                                                  *)
ContactNext ==
    \/ \E s \in Sequential, t \in SampleTypes, l \in SampleLabels : ContactPost(s, t, l)
    \/ \E s \in Sequential, id \in 1..(MaxContacts + 1), t \in SampleTypes \cup {NoType},
          l \in SampleLabels \cup {NoLabel} : ContactPutBegin(s, id, t, l)
    \/ \E s \in Sequential : ContactPutSave(s)
    \/ \E s \in Sequential, b \in SampleSortBy, o \in SampleSortOrder : ContactList(s, b, o)
    \/ \E s \in Sequential : ProductPostBegin(s, 1, FALSE, Absent)
    \/ \E s \in Sequential : ProductPostSave(s)
    \/ \E s \in Sequential, coll \in ListColls : List(s, coll, NoParam, NoParam, Absent, Absent)

----------------------------------------------------------------------------
(* Specifications.                                                         *)

(* The server starts on an empty database ...                              *)
Init ==
    /\ now = 1
    /\ messages = <<>>
    /\ msgResp = NoRequest
    /\ db = emptyDb
    /\ assets = {}
    /\ uploads = 0
    /\ reqs = [s \in Slots |-> Idle]
    /\ cachedConnection = NoConnection
    /\ connects = 0

(* ... or on one the seed script has filled with the default categories.   *)
SeededInit ==
    /\ now = 1
    /\ messages = <<>>
    /\ msgResp = NoRequest
    /\ db = [emptyDb EXCEPT !.categories = seedCategories]
    /\ assets = {}
    /\ uploads = 0
    /\ reqs = [s \in Slots |-> Idle]
    /\ cachedConnection = NoConnection
    /\ connects = 0

(* The message routes: create, read, update, with time passing.            *)
SpecMsg == Init /\ [][MsgNext]_vars

(* The contact form alone, over every sample text.                         *)
SpecClassify == Init /\ [][ClassifyNext]_vars

(* Product create / update racing category delete, on seeded categories.   *)
SpecRefs == SeededInit /\ [][RefsNext]_vars

(* Category create and update on an empty collection.                      *)
SpecCatNames == Init /\ [][CatNamesNext]_vars

(* Team create and update on an empty collection.                          *)
SpecTeam == Init /\ [][TeamNext]_vars

(* The image-carrying routes and the media host.                           *)
SpecAssets == SeededInit /\ [][AssetsNext]_vars

(* The list endpoints, paged.                                              *)
SpecPaging == SeededInit /\ [][PagingNext]_vars

(* The list endpoints, filtered.                                           *)
SpecFilters == SeededInit /\ [][FiltersNext]_vars

(* The contact routes and every list in its default order.                 *)
SpecContact == SeededInit /\ [][ContactNext]_vars

(* The category list and its product counts.                               *)
SpecCounts == SeededInit /\ [][CountsNext]_vars

----------------------------------------------------------------------------
(* Properties of the message routes.                                       *)

(* The priority rules as the specification words them, over a text.        *)
RulePriority(text, category) ==
    IF includes(text, KwCeo) \/ includes(text, KwUrgent) \/ includes(text, KwImportant)
    THEN "CEO"
    ELSE IF category = "sales" \/ includes(text, KwSalesManager)
    THEN "Sales Manager"
    ELSE IF category = "herbs" \/ includes(text, KwHerb) \/ includes(text, KwNatural)
    THEN "Herbs Priority"
    ELSE IF category = "complaint"
    THEN "high"
    ELSE "medium"

PostClassified == msgResp.op = "POST" /\ msgResp.derived # Absent

(* C1, as stated: the priority derived for a POST is the rule applied to   *)
(* the lower-cased text subject + ' ' + message of the fields as submitted.*)
C1_SubmittedText ==
    PostClassified =>
        msgResp.derived =
            RulePriority(toLowerCase(concat(msgResp.subject, msgResp.message)),
                         msgResp.category)

(* C1, amended: the priority derived for a POST that passes validation is  *)
(* the rule applied to the lower-cased text of the trimmed subject, a      *)
(* space and the trimmed message, the first matching rule winning.         *)
C1_TrimmedText ==
    PostClassified =>
        msgResp.derived =
            RulePriority(toLowerCase(concat(trim(msgResp.subject), trim(msgResp.message))),
                         msgResp.category)

(* A text holding both 'urgent' and 'sales manager' was classified 'CEO'.  *)
C1_Witness ==
    /\ PostClassified
    /\ includes(toLowerCase(concat(msgResp.subject, msgResp.message)), KwUrgent)
    /\ includes(toLowerCase(concat(msgResp.subject, msgResp.message)), KwSalesManager)
    /\ msgResp.derived = "CEO"

(* C2: a POST that passes request validation is answered 201 and stores    *)
(* one new message whose priority is the classifier's label and whose      *)
(* category is the submitted one.                                          *)
C2_PostStoresLabel ==
    (msgResp.op = "POST" /\ msgResp.status # 400) =>
        /\ msgResp.status = 201
        /\ msgResp.id \in DOMAIN messages
        /\ messages[msgResp.id].priority = msgResp.derived
        /\ msgResp.priority = msgResp.derived
        /\ (msgResp.category # Absent =>
                messages[msgResp.id].category = msgResp.category)

(* C9: a PUT that supplies no priority leaves the stored priority of its   *)
(* message as it was, whatever category, isRead or replied it sets.        *)
C9_PutKeepsPriority ==
    [][(/\ msgResp'.op = "PUT"
        /\ msgResp'.priority = Absent
        /\ msgResp'.id \in DOMAIN messages)
       => messages'[msgResp'.id].priority = messages[msgResp'.id].priority]_vars

(* A PUT changed the category of a message to one that classifies to a     *)
(* label other than the stored priority, and the priority stayed.          *)
C9_Witness ==
    /\ msgResp.op = "PUT" /\ msgResp.status = 200
    /\ msgResp.priority = Absent /\ msgResp.category # Absent
    /\ LET m == messages[msgResp.id]
       IN  /\ m.category = msgResp.category
           /\ classifyPriority(m.subject, m.message, m.category) # m.priority

(* C10: a PUT on an existing message that passes validation and supplies a *)
(* priority or a category of the accepted lists succeeds and the stored    *)
(* message carries that priority or category.                              *)
C10_PutStoresAccepted ==
    (/\ msgResp.op = "PUT"
     /\ msgResp.status \notin {400, 404}
     /\ (msgResp.priority \in RoutePriorities \/ msgResp.category \in RouteCategories))
    => /\ msgResp.status = 200
       /\ (msgResp.priority # Absent =>
               messages[msgResp.id].priority = msgResp.priority)
       /\ (msgResp.category # Absent =>
               messages[msgResp.id].category = msgResp.category)

----------------------------------------------------------------------------
(* Properties of the category and product routes.                          *)

(* The live products that carry a category id.                             *)
Referencing(products, category) ==
    {i \in DOMAIN products : products[i].live /\ products[i].category = category}

(* C3: every stored product's category id refers to a category that       *)
(* exists now.                                                             *)
C3_ProductsReferToCategories ==
    \A i \in DOMAIN db.products :
        db.products[i].live =>
            /\ db.products[i].category \in DOMAIN db.categories
            /\ db.categories[db.products[i].category].live

(* C4: when DELETE /api/categories/:id counts n > 0 referencing products   *)
(* it answers 400 with n in the message and changes nothing; when it       *)
(* counts none it goes on to remove exactly that category and answers 200. *)
C4_DeleteGuard ==
    [][\A s \in Slots :
          LET r == reqs[s]
              q == reqs'[s]
              n == Cardinality(Referencing(db.products, r.id))
          IN  r.op = "CategoryDelete" =>
                /\ (r.pc = "count" /\ q # r) =>
                      /\ db' = db
                      /\ q.count = n
                      /\ IF n > 0
                         THEN q.pc = "done" /\ q.status = 400
                         ELSE q.pc = "delete"
                /\ (r.pc = "delete" /\ q # r) =>
                      /\ q.pc = "done" /\ q.status = 200
                      /\ db'.products = db.products
                      /\ db'.categories = [db.categories EXCEPT ![r.id] = DeletedDoc]
      ]_vars

(* One delete was refused over two products, another went through.         *)
C4_Witness ==
    /\ \E s \in Slots :
          /\ reqs[s].op = "CategoryDelete" /\ reqs[s].pc = "done"
          /\ reqs[s].status = 400 /\ reqs[s].count = 2
          /\ db.categories[reqs[s].id].live
    /\ \E s \in Slots :
          /\ reqs[s].op = "CategoryDelete" /\ reqs[s].pc = "done"
          /\ reqs[s].status = 200
          /\ ~db.categories[reqs[s].id].live

----------------------------------------------------------------------------
(* Category names.                                                         *)

NameHolders(categories, name) ==
    {j \in DOMAIN categories :
        categories[j].live /\ toLowerCase(categories[j].name) = toLowerCase(name)}

(* C7: no two categories have names equal ignoring case, and a create or   *)
(* a rename whose name another category holds, when the handler looks the  *)
(* name up or writes it, is answered 400 'Category name already exists'    *)
(* and changes no category.                                                *)
C7_UniqueCategoryNames ==
    [][/\ \A i, j \in DOMAIN db'.categories :
             (/\ i # j
              /\ db'.categories[i].live /\ db'.categories[j].live
              /\ toLowerCase(db'.categories[i].name) = toLowerCase(db'.categories[j].name))
             => FALSE
       /\ \A s \in Slots :
             LET r == reqs[s]
                 q == reqs'[s]
                 refused == /\ q.pc = "done" /\ q.status = 400
                            /\ q.msg = "Category name already exists"
                            /\ db' = db
             IN  /\ (/\ Free(s) /\ q # r /\ q.op = "CategoryPost"
                     /\ categoryNameValid(q.name)
                     /\ NameHolders(db.categories, q.name) # {}) => refused
                 /\ (/\ r.op = "CategoryPost" /\ r.pc = "save" /\ q # r
                     /\ NameHolders(db.categories, r.name) # {}) => refused
                 /\ (/\ r.op = "CategoryPut" /\ q # r
                     /\ \/ r.pc = "findOne"
                        \/ r.pc = "save" /\ r.name # NoName /\ r.name # r.doc.name
                     /\ db.categories[r.id].live
                     /\ NameHolders(db.categories, r.name) \ {r.id} # {}) => refused
      ]_vars

(* A create lost the race to a name differing in case only and was refused *)
(* by the index at save time; a rename was refused by the lookup.          *)
C7_Witness ==
    /\ \E s \in Slots :
          /\ reqs[s].op = "CategoryPost" /\ reqs[s].pc = "done"
          /\ reqs[s].err = "E11000" /\ reqs[s].status = 400
          /\ \E j \in NameHolders(db.categories, reqs[s].name) :
                db.categories[j].name # reqs[s].name
    /\ \E s \in Slots :
          /\ reqs[s].op = "CategoryPut" /\ reqs[s].pc = "done"
          /\ reqs[s].err = "" /\ reqs[s].status = 400
          /\ reqs[s].msg = "Category name already exists"
          /\ Len(db.categories) = 2

----------------------------------------------------------------------------
(* Team emails.                                                            *)

EmailHolders(team, email) ==
    {j \in DOMAIN team : team[j].live /\ toLowerCase(team[j].email) = toLowerCase(email)}

(* C8: no two team members have emails equal ignoring case, and a create   *)
(* or an update whose email another member holds, when the handler looks   *)
(* the email up or writes it, is answered 400 'Email already exists' and   *)
(* leaves every record as it was.                                          *)
C8_UniqueTeamEmails ==
    [][/\ \A i, j \in DOMAIN db'.team :
             (/\ i # j
              /\ db'.team[i].live /\ db'.team[j].live
              /\ toLowerCase(db'.team[i].email) = toLowerCase(db'.team[j].email))
             => FALSE
       /\ \A s \in Slots :
             LET r == reqs[s]
                 q == reqs'[s]
                 refused == /\ q.pc = "done" /\ q.status = 400
                            /\ q.msg = "Email already exists"
                            /\ db' = db
             IN  /\ (/\ Free(s) /\ q # r /\ q.op = "TeamPost"
                     /\ EmailHolders(db.team, q.email) # {}) => refused
                 /\ (/\ r.op = "TeamPost" /\ r.pc = "save" /\ q # r
                     /\ EmailHolders(db.team, r.email) # {}) => refused
                 /\ (/\ r.op = "TeamPut" /\ q # r
                     /\ \/ r.pc = "findOne"
                        \/ r.pc = "save" /\ r.email # NoEmail /\ r.email # r.doc.email
                     /\ db.team[r.id].live
                     /\ EmailHolders(db.team, r.email) \ {r.id} # {}) => refused
      ]_vars

(* A create lost the race for an email and was refused by the index at     *)
(* save time, the winner's record standing; an update was refused by the   *)
(* lookup.                                                                 *)
C8_Witness ==
    /\ \E s \in Slots :
          /\ reqs[s].op = "TeamPost" /\ reqs[s].pc = "done"
          /\ reqs[s].err = "E11000" /\ reqs[s].status = 400
          /\ EmailHolders(db.team, reqs[s].email) # {}
    /\ \E s \in Slots :
          /\ reqs[s].op = "TeamPut" /\ reqs[s].pc = "done"
          /\ reqs[s].err = "" /\ reqs[s].status = 400
          /\ reqs[s].msg = "Email already exists"
          /\ Len(db.team) = 2

----------------------------------------------------------------------------
(* Assets.                                                                 *)

AssetOps == {"ProductPut", "CertificatePut", "TeamPut", "Delete"}

collOf(r) ==
    IF r.op = "Delete" THEN r.coll
    ELSE IF r.op = "ProductPut" THEN "products"
    ELSE IF r.op = "CertificatePut" THEN "certificates"
    ELSE "team"

successMessage(r) ==
    IF r.op = "Delete" THEN deletedMessage(r.coll)
    ELSE IF r.op = "ProductPut" THEN "Product updated successfully"
    ELSE IF r.op = "CertificatePut" THEN "Certificate updated successfully"
    ELSE "Team member updated successfully"

(* C5: a PUT or DELETE of a product, certificate or team member has called *)
(* the media host to delete the old asset only if its save or delete of    *)
(* the document has already succeeded.                                     *)
C5_AssetDeleteAfterWrite ==
    \A s \in Slots :
        (reqs[s].op \in AssetOps /\ reqs[s].assetCall # "none") =>
            /\ reqs[s].pc = "done"
            /\ reqs[s].status = 200

(* C6: whatever the media host answers to the delete call the handler goes *)
(* on to its write without touching the database, and after a failed call  *)
(* a write the schema accepts is applied and answered with the route's     *)
(* success response.                                                       *)
C6_AssetFailureSwallowed ==
    [][\A s \in Slots :
          LET r == reqs[s]
              q == reqs'[s]
          IN  r.op \in AssetOps =>
                /\ (r.pc = "deleteImage" /\ q # r) =>
                      /\ q.pc = IF r.op = "Delete" THEN "delete" ELSE "save"
                      /\ db' = db
                /\ (/\ r.pc \in {"save", "delete"} /\ r.assetCall = "failed" /\ q # r
                    /\ r.op = "ProductPut" =>
                          productSchemaValid([price |-> IF r.price # Absent
                                                        THEN r.price ELSE r.doc.price])) =>
                      /\ q.pc = "done" /\ q.status = 200
                      /\ q.msg = successMessage(r)
                      /\ IF r.op = "Delete"
                         THEN ~db'[collOf(r)][r.id].live
                         ELSE db'[collOf(r)][r.id].imagePublicId = r.file
      ]_vars

(* An update with a new file went through although the media host refused  *)
(* to delete the old asset, which is still there.                          *)
C6_Witness ==
    \E s \in Slots :
        /\ reqs[s].op \in {"ProductPut", "CertificatePut", "TeamPut"}
        /\ reqs[s].pc = "done" /\ reqs[s].status = 200
        /\ reqs[s].assetCall = "failed"
        /\ reqs[s].file # NoAsset
        /\ reqs[s].doc.imagePublicId \in assets
        /\ db[collOf(reqs[s])][reqs[s].id].imagePublicId = reqs[s].file

----------------------------------------------------------------------------
(* Reading a message.                                                      *)

(* C11: a GET /api/messages/:id answered 200 leaves the message read; if   *)
(* it was unread the step sets isRead and readAt to the time of the        *)
(* request, and if it was read the step changes no message.                *)
C11_GetMarksRead ==
    [][(/\ msgResp'.op = "GET" /\ msgResp'.status = 200
        /\ (msgResp' # msgResp \/ messages' # messages)) =>
          LET id == msgResp'.id
          IN  /\ id \in DOMAIN messages
              /\ messages'[id].isRead
              /\ \A j \in DOMAIN messages : j # id => messages'[j] = messages[j]
              /\ IF messages[id].isRead
                 THEN messages' = messages
                 ELSE messages' = [messages EXCEPT ![id].isRead = TRUE,
                                                   ![id].readAt = now]
      ]_vars

(* A message first read by a GET after time has passed.                    *)
C11_Witness ==
    /\ msgResp.op = "GET" /\ msgResp.status = 200
    /\ now = MaxClock
    /\ messages[msgResp.id].isRead
    /\ messages[msgResp.id].readAt = now

----------------------------------------------------------------------------
(* Lists.                                                                  *)

(* C12: a list request that reaches the store queries it with a page of at *)
(* least 1 and a limit from 1 to 100.                                      *)
C12_PagingWithinBounds ==
    \A s \in Slots :
        (reqs[s].op = "List" /\ reqs[s].queried) =>
            /\ reqs[s].usedPage >= 1
            /\ reqs[s].usedLimit >= 1
            /\ reqs[s].usedLimit <= 100

LiveIds(coll) ==
    {i \in DOMAIN docsOf(coll) : coll = "messages" \/ docsOf(coll)[i].live}

(* C13: a list request queried with page >= 1 and limit L >= 1 is answered *)
(* 200 with total the number of matching records and pages the least n     *)
(* with n * L >= total, and its data is empty exactly when the page is     *)
(* beyond pages; 25 records at 10 a page are 3 pages.                      *)
C13_PagesAndEmptyPage ==
    [][\A s \in Slots :
          LET q == reqs'[s]
          IN  (/\ q.op = "List" /\ q # reqs[s] /\ q.queried
               /\ q.usedPage >= 1 /\ q.usedLimit >= 1) =>
                /\ q.status = 200
                /\ q.total = Cardinality(LiveIds(q.coll))
                /\ q.pages * q.usedLimit >= q.total
                /\ (q.pages - 1) * q.usedLimit < q.total
                /\ q.pages >= 0
                /\ (q.usedPage > q.pages) <=> (q.data = <<>>)
                /\ ceilPages(25, 10) = 3
      ]_vars

(* Two records at one a page: page 3 of 2 is empty and answered 200.       *)
C13_Witness ==
    \E s \in Slots :
        /\ reqs[s].op = "List" /\ reqs[s].status = 200
        /\ reqs[s].total = 2 /\ reqs[s].usedLimit = 1 /\ reqs[s].pages = 2
        /\ reqs[s].usedPage = 3 /\ reqs[s].data = <<>>

Agrees(param, value) ==
    /\ param = "true" => value = TRUE
    /\ param = "false" => value = FALSE

(* C14: a list filtered by a flag parameter returns exactly the records    *)
(* whose flag is true for 'true', exactly those whose flag is false for    *)
(* 'false', and the records of both states when the parameter is absent.   *)
C14_TriStateFilter ==
    [][\A s \in Slots :
          LET q == reqs'[s]
              docs == docsOf(q.coll)
          IN  (q.op = "List" /\ q # reqs[s] /\ q.status = 200 /\ q.page = NoParam
               /\ q.limit = NoParam) =>
                {q.data[k] : k \in DOMAIN q.data} =
                    {i \in LiveIds(q.coll) :
                        /\ Agrees(q.flag, flagOf(q.coll, docs[i]))
                        /\ q.coll = "messages" => Agrees(q.replied, docs[i].replied)}
      ]_vars

(* An unfiltered product list that returns a product in stock and one out  *)
(* of stock, and a message list filtered to the read ones that returns one.*)
C14_Witness ==
    \E s \in Slots :
        /\ reqs[s].op = "List" /\ reqs[s].status = 200
        /\ reqs[s].coll = "products" /\ reqs[s].flag = Absent
        /\ Len(reqs[s].data) = 2
        /\ Len(db.products) = 2
        /\ db.products[1].live /\ db.products[2].live
        /\ db.products[1].inStock # db.products[2].inStock

(* C16: every category of a category list carries the number of stored     *)
(* products referring to it and the number of those in stock, 0 and 0 for  *)
(* a category no product refers to.                                        *)
C16_CategoryCounts ==
    [][\A s \in Slots :
          LET q == reqs'[s]
          IN  (q.op = "List" /\ q # reqs[s] /\ q.coll = "categories" /\ q.status = 200) =>
                /\ Len(q.counts) = Len(q.data)
                /\ \A k \in DOMAIN q.data :
                      LET of == {i \in DOMAIN db.products :
                                    /\ db.products[i].live
                                    /\ db.products[i].category = q.data[k]}
                      IN  /\ q.counts[k].productCount = Cardinality(of)
                          /\ q.counts[k].inStockCount =
                                Cardinality({i \in of : db.products[i].inStock})
                          /\ of = {} => q.counts[k] = [productCount |-> 0,
                                                       inStockCount |-> 0]
      ]_vars

(* A category list with a category of two products, one in stock, and a    *)
(* category of none.                                                       *)
C16_Witness ==
    \E s \in Slots :
        /\ reqs[s].op = "List" /\ reqs[s].coll = "categories" /\ reqs[s].status = 200
        /\ Len(reqs[s].data) = 2
        /\ \E k \in DOMAIN reqs[s].counts :
              reqs[s].counts[k] = [productCount |-> 2, inStockCount |-> 1]
        /\ \E k \in DOMAIN reqs[s].counts :
              reqs[s].counts[k] = [productCount |-> 0, inStockCount |-> 0]

----------------------------------------------------------------------------
(* Sort order and contact types.                                           *)

(* C15: a list answered 200 without sort parameters is in descending order *)
(* of creation; GET /api/contact with an allow-listed sortBy is ordered on *)
(* that field, descending exactly when sortOrder is 'desc' and ascending   *)
(* otherwise, and a sortBy or sortOrder outside the allow-lists is         *)
(* answered 400 with no query.                                             *)
C15_SortOrder ==
    [][\A s \in Slots :
          LET q == reqs'[s]
              n == Len(q.data)
          IN  /\ (q.op = "List" /\ q # reqs[s] /\ q.status = 200) =>
                    \A k \in 1..(n - 1) : q.data[k] > q.data[k + 1]
              /\ (q.op = "ContactList" /\ q # reqs[s]) =>
                    IF \/ q.sortBy \notin {Absent, "type", "label", "createdAt"}
                       \/ q.sortOrder \notin {Absent, "asc", "desc"}
                    THEN q.status = 400 /\ ~q.queried
                    ELSE /\ q.status = 200
                         /\ {q.data[k] : k \in 1..n} =
                               {i \in DOMAIN db.contacts : db.contacts[i].live}
                         /\ n = Cardinality({i \in DOMAIN db.contacts : db.contacts[i].live})
                         /\ \A k \in 1..(n - 1) :
                               IF q.sortBy = Absent
                               THEN q.data[k] > q.data[k + 1]
                               ELSE IF q.sortOrder = "desc"
                               THEN keyLeq(q.sortBy, q.data[k + 1], q.data[k])
                               ELSE keyLeq(q.sortBy, q.data[k], q.data[k + 1])
      ]_vars

(* Two contacts listed by label, descending: the older one, whose label is *)
(* the greater, comes first.                                               *)
C15_Witness ==
    \E s \in Slots :
        /\ reqs[s].op = "ContactList" /\ reqs[s].status = 200
        /\ reqs[s].sortBy = "label" /\ reqs[s].sortOrder = "desc"
        /\ reqs[s].data = <<1, 2>>
        /\ Len(db.contacts) = 2
        /\ db.contacts[1].label # db.contacts[2].label
        /\ stringLeq(db.contacts[2].label, db.contacts[1].label)

(* C17: no stored contact has a type that is excluded ignoring case; a     *)
(* create or update naming such a type is answered 400 and changes         *)
(* nothing; a contact list returns no record of an excluded type.          *)
C17_NoExcludedContact ==
    [][/\ \A i \in DOMAIN db'.contacts :
             db'.contacts[i].live => toLowerCase(db'.contacts[i].type) \notin ExcludedTypes
       /\ \A s \in Slots :
             LET r == reqs[s]
                 q == reqs'[s]
             IN  /\ (/\ Free(s) /\ q # r /\ q.op \in {"ContactPost", "ContactPut"}
                     /\ toLowerCase(trim(q.type)) \in ExcludedTypes) =>
                       /\ q.pc = "done" /\ q.status = 400
                       /\ db' = db
                 /\ (q.op = "ContactList" /\ q # r) =>
                       \A k \in DOMAIN q.data :
                           toLowerCase(db.contacts[q.data[k]].type) \notin ExcludedTypes
      ]_vars

(* An update of a stored contact to 'Facebook' was refused and the contact *)
(* is as it was.                                                           *)
C17_Witness ==
    \E s \in Slots :
        /\ reqs[s].op = "ContactPut" /\ reqs[s].pc = "done" /\ reqs[s].status = 400
        /\ reqs[s].type = <<"F", "a", "c", "e", "b", "o", "o", "k">>
        /\ reqs[s].id \in DOMAIN db.contacts
        /\ db.contacts[reqs[s].id].live

----------------------------------------------------------------------------
(* Products naming a category that is malformed or not stored.             *)

(* Product create and update with image files, naming a stored category,   *)
(* a malformed id, an id of no category, or a category deleted meanwhile.  *)
BadCategoryNext ==
    \/ \E s \in Sequential, c \in CategoryIds, f \in BOOLEAN :
          ProductPostBegin(s, c, f, Absent)
    \/ \E s \in Sequential : ProductPostSave(s)
    \/ \E s \in Sequential, c \in CategoryIds \cup {NoId}, f \in BOOLEAN :
          ProductPutBegin(s, 1, c, f, Absent, Absent)
    \/ \E s \in Sequential : ProductPutFindCategory(s)
    \/ \E s \in Sequential, outcome \in DeleteOutcomes : DeleteImage(s, outcome)
    \/ \E s \in Sequential : ProductPutSave(s)
    \/ \E s \in Sequential : CategoryDeleteBegin(s, 2)
    \/ \E s \in Sequential : CategoryDeleteCount(s)
    \/ \E s \in Sequential : CategoryDeleteRemove(s)

SpecBadCategory == SeededInit /\ [][BadCategoryNext]_vars

(* The request in a slot named a category id that is malformed or refers   *)
(* to no stored category when the handler looked it up.                    *)
NamesBadCategory(s) ==
    LET r == reqs[s]
        q == reqs'[s]
    IN  \/ /\ Free(s)
           /\ q.op = "ProductPost"
           /\ q.category # NoId
           /\ ~(isValidObjectId(q.category) /\ findById(db.categories, q.category).live)
        \/ /\ Free(s)
           /\ q.op = "ProductPut"
           /\ findById(db.products, q.id).live
           /\ q.category # NoId
           /\ ~isValidObjectId(q.category)
        \/ /\ r.op = "ProductPut" /\ r.pc = "findCategory"
           /\ q # r
           /\ ~findById(db.categories, r.category).live

(* C18: a POST or PUT of a product naming a category id that is malformed  *)
(* or refers to no stored category is answered 400, and that step creates  *)
(* or changes no product and deletes no asset.                             *)
C18_BadCategoryRefused ==
    [][\A s \in Slots :
          NamesBadCategory(s) =>
             /\ reqs'[s].pc = "done"
             /\ reqs'[s].status = 400
             /\ db' = db
             /\ assets \subseteq assets']_vars

(* A PUT with a new image file on a product that has an image, naming a    *)
(* category that is not stored, ended 400 with the product and its image   *)
(* as they were.                                                           *)
C18_Witness ==
    \E s \in Slots :
       /\ reqs[s].op = "ProductPut" /\ reqs[s].pc = "done"
       /\ reqs[s].status = 400 /\ reqs[s].msg = "Category not found"
       /\ reqs[s].file # NoAsset
       /\ reqs[s].doc.imagePublicId # NoAsset
       /\ reqs[s].doc.imagePublicId \in assets
       /\ findById(db.products, reqs[s].id) = reqs[s].doc

----------------------------------------------------------------------------
(* Input validation and the document store.                                *)

InvalidEmail == <<"a", "x", ".", "i", "o">>

(* Creates and updates whose input is valid, lacks a field, lacks the      *)
(* image, or names a malformed category id.                                *)
ValidationNext ==
    \/ \E s \in Sequential, e \in TwoEmails \cup {NoEmail, InvalidEmail},
          u \in SampleImageUrls : TeamPostBegin(s, e, FALSE, u)
    \/ \E s \in Sequential : TeamPostSave(s)
    \/ \E s \in Sequential, c \in CategoryIds \cup {NoId} :
          ProductPostBegin(s, c, FALSE, Absent)
    \/ \E s \in Sequential : ProductPostSave(s)
    \/ \E s \in Sequential, c \in CategoryIds \cup {NoId} :
          ProductPutBegin(s, 1, c, FALSE, Absent, Absent)
    \/ \E s \in Sequential : ProductPutFindCategory(s)
    \/ \E s \in Sequential : ProductPutSave(s)
    \/ \E s \in Sequential, u \in SampleImageUrls : CertificatePost(s, FALSE, u)
    \/ \E s \in Sequential, t \in SampleTypes \cup {NoType} :
          ContactPost(s, t, <<"a">>)

SpecValidation == SeededInit /\ [][ValidationNext]_vars

(* The create and update requests of the routes above.                     *)
WriteOps == {"TeamPost", "ProductPost", "ProductPut", "CertificatePost", "ContactPost"}

(* The 400 answers to input that fails validation: a missing or invalid    *)
(* field, a missing required image, a malformed category id.               *)
ValidationMessages ==
    { "Validation failed", "Name, description, and category are required",
      "Invalid category ID format", "Team member image is required",
      "Certificate image is required" }

(* C19: a create or update request answered 400 for input that fails       *)
(* validation has issued no read or write to the document store.           *)
C19_ValidationBeforeStore ==
    \A s \in Slots :
        (/\ reqs[s].op \in WriteOps
         /\ reqs[s].pc = "done"
         /\ reqs[s].status = 400
         /\ reqs[s].msg \in ValidationMessages)
        => ~reqs[s].queried

----------------------------------------------------------------------------
(* Store-layer errors on the message routes.                               *)

(* C20: a store-layer error raised while a request is handled is answered  *)
(* 400, never 500, POST and PUT of messages included. On the message       *)
(* routes the only answer of 500 is the one the catch block gives to the   *)
(* schema validation error that save() raised.                             *)
C20_StoreErrorAnswered400 ==
    msgResp.op \in {"POST", "PUT"} => msgResp.status # 500

----------------------------------------------------------------------------
(* The dashboard (routes/dashboard.js): GET /api/dashboard/overview.       *)

MaxDashCategories == 4
MaxDashOthers == 2

(* .limit(3), .limit(3), .limit(2), .limit(2), .limit(2) and .slice(0, 8). *)
RecentCategories == 3
RecentProducts == 3
RecentCertificates == 2
RecentTeam == 2
RecentMessages == 2
FeedLimit == 8

FeedColls == <<"categories", "products", "certificates", "team", "messages">>

recentLimit(coll) ==
    IF coll = "categories" THEN RecentCategories
    ELSE IF coll = "products" THEN RecentProducts
    ELSE IF coll = "certificates" THEN RecentCertificates
    ELSE IF coll = "team" THEN RecentTeam
    ELSE RecentMessages

(* The stored documents of a collection, by _id.                           *)
storedIds(coll) ==
    {i \in DOMAIN docsOf(coll) : coll = "messages" \/ docsOf(coll)[i].live}

(* Model.countDocuments()                                                  *)
countAll(coll) == Cardinality(storedIds(coll))

(* Array.prototype.slice(0, n)                                             *)
slice(seq, n) == SubSeq(seq, 1, IF n < Len(seq) THEN n ELSE Len(seq))

(* Model.find().sort({ createdAt: -1 }).limit(n) and the forEach that      *)
(* pushes one activity per document.                                       *)
recentOf(coll) ==
    LET found == slice(newestFirst(storedIds(coll)), recentLimit(coll))
    IN  [k \in DOMAIN found |->
            [type |-> coll, id |-> found[k],
             timestamp |-> docsOf(coll)[found[k]].createdAt]]

(* A feed left in the order the activities were pushed.                    *)
unsorted(activities) == activities

(* .sort((a, b) => new Date(b.timestamp) - new Date(a.timestamp)): newest  *)
(* first, activities of one timestamp in the order they were pushed.       *)
RECURSIVE sortByTimestamp(_)
sortByTimestamp(activities) ==
    IF activities = <<>> THEN <<>>
    ELSE LET m == Max({activities[k].timestamp : k \in DOMAIN activities})
             newest(a) == a.timestamp = m
             older(a) == a.timestamp # m
         IN  SelectSeq(activities, newest) \o
             sortByTimestamp(SelectSeq(activities, older))

(* recentActivities as the handler builds it: push, sort, slice, map.      *)
recentActivities ==
    LET pushed == recentOf("categories") \o recentOf("products") \o
                  recentOf("certificates") \o recentOf("team") \o recentOf("messages")
        sortedActivities == slice(sortByTimestamp(pushed), FeedLimit)
    IN  [k \in DOMAIN sortedActivities |->
            [type |-> sortedActivities[k].type, id |-> sortedActivities[k].id]]

(* Message.countDocuments({ read: false }): the schema has no path read.   *)
(* A build whose strictQuery keeps the condition matches no message, one   *)
(* that strips it matches them all.                                        *)
QueryBuilds == {"kept", "stripped"}

countRead(build) ==
    IF build = "kept" THEN 0 ELSE countAll("messages")

(* The seven counts of Promise.all and the stats object.                   *)
stats(build) ==
    [categories |-> countAll("categories"),
     products |-> countAll("products"),
     certificates |-> countAll("certificates"),
     team |-> countAll("team"),
     messages |-> countAll("messages"),
     unreadMessages |-> countRead(build),
     contactMethods |-> countAll("messages")]

(* GET /api/dashboard/overview; the route declares no adminAuth.           *)
Overview(s, build) ==
    LET r == [op |-> "Overview", pc |-> "done", status |-> 200, msg |-> "",
              stats |-> stats(build), recentActivities |-> recentActivities]
    IN  /\ Free(s)
        /\ reqs' = [reqs EXCEPT ![s] = r]
        /\ UNCHANGED <<db, assets, uploads, msgVars, connVars>>

(* Creation times in creation order, at most n of them.                    *)
Stamps(n) ==
    UNION {{t \in [1..len -> 1..MaxClock] : \A k \in 1..(len - 1) : t[k] <= t[k + 1]} :
              len \in 0..n}

stamped(t) == [k \in DOMAIN t |-> [live |-> TRUE, createdAt |-> t[k]]]

stampedMessage(t, read) ==
    [name |-> <<"A">>, subject |-> <<"h", "i">>, message |-> <<"h", "i">>,
     category |-> "general", priority |-> "medium", isRead |-> read, readAt |-> IF read THEN t ELSE NoDate,
     replied |-> FALSE, repliedAt |-> NoDate, createdAt |-> t]

(* Stores the create routes can have filled by the time MaxClock.          *)
DashStores ==
    {[categories |-> stamped(c), products |-> stamped(p), certificates |-> stamped(ce),
      team |-> stamped(t),
      contacts |-> << [live |-> TRUE, createdAt |-> 1, type |-> <<"p", "h", "o", "n", "e">>,
                       label |-> <<"a">>] >>] :
        c \in Stamps(MaxDashCategories), p \in Stamps(MaxDashOthers),
        ce \in Stamps(MaxDashOthers), t \in Stamps(MaxDashOthers)}

(* Messages of which the first may have been read.                         *)
DashMessages ==
    {[k \in DOMAIN t |-> stampedMessage(t[k], k = 1 /\ read)] :
        t \in Stamps(MaxDashOthers), read \in BOOLEAN}

DashInit ==
    /\ now = MaxClock
    /\ messages \in DashMessages
    /\ msgResp = NoRequest
    /\ db \in DashStores
    /\ assets = {}
    /\ uploads = 0
    /\ reqs = [s \in Slots |-> Idle]
    /\ cachedConnection = NoConnection
    /\ connects = 0

DashNext ==
    \E s \in Sequential, build \in QueryBuilds : Overview(s, build)

SpecDashboard == DashInit /\ [][DashNext]_vars

(* The documents a feed may show: of each collection the stored documents  *)
(* with fewer than its limit of later-created ones.                        *)
Eligible ==
    UNION {{[type |-> FeedColls[c], id |-> i] :
               i \in {j \in storedIds(FeedColls[c]) :
                         Cardinality({k \in storedIds(FeedColls[c]) : k > j})
                            < recentLimit(FeedColls[c])}} :
           c \in DOMAIN FeedColls}

timestampOf(a) == docsOf(a.type)[a.id].createdAt

C27_OverviewCounts ==
    [][\A s \in Slots :
          (reqs'[s] # reqs[s] /\ reqs'[s].op = "Overview") =>
             LET st == reqs'[s].stats
             IN  /\ st.unreadMessages
                       = Cardinality({i \in DOMAIN messages : ~messages[i].isRead})
                 /\ st.contactMethods
                       = Cardinality({i \in DOMAIN db.contacts : db.contacts[i].live})
                 /\ st.categories = countAll("categories")
                 /\ st.products = countAll("products")
                 /\ st.certificates = countAll("certificates")
                 /\ st.team = countAll("team")
                 /\ st.messages = Len(messages)]_vars

----------------------------------------------------------------------------
(* Admin authorization: which routes put adminAuth before their handler.   *)

(* The routes declared with adminAuth in their middleware chain. A request *)
(* reaches the handler of such a route only if adminAuth called next().    *)
AdminOps ==
    {"ProductPost", "ProductPut", "CertificatePost", "CertificatePut", "TeamPost",
     "TeamPut", "CategoryPost", "CategoryPut", "CategoryDelete", "Delete",
     "ContactPost", "ContactPut", "ContactDelete", "MessageList", "GET", "PUT"}

declaresAdminAuth(r) ==
    \/ r.op \in AdminOps
    \/ r.op = "List" /\ r.coll = "messages"

(* adminAuth answers a request it does not pass and does not call next().  *)
AdminAuthRejects(s, op) ==
    /\ Free(s)
    /\ reqs' = [reqs EXCEPT ![s] =
          [op |-> op, pc |-> "done", status |-> 401, msg |-> "Access denied"]]
    /\ UNCHANGED <<db, assets, uploads, msgVars, connVars>>

(* Requests with and without admin authorization: the contact form, the    *)
(* message routes, contact creation, the message list and the overview.    *)
AuthNext ==
    \/ PostMessage(SenderName, HelloText, HelloText, Absent)
    \/ \E id \in 1..MaxMessages, f \in {"true", "false"} :
          PutMessage(id, f, Absent, Absent, Absent)
    \/ \E id \in 1..MaxMessages : GetMessage(id)
    \/ \E s \in Sequential, t \in {<<"p", "h", "o", "n", "e">>, NoType} :
          ContactPost(s, t, <<"a">>)
    \/ \E s \in Sequential : List(s, "messages", NoParam, NoParam, Absent, Absent)
    \/ \E s \in Sequential : List(s, "products", NoParam, NoParam, Absent, Absent)
    \/ \E s \in Sequential, op \in AdminOps : AdminAuthRejects(s, op)
    \/ \E s \in Sequential, build \in QueryBuilds : Overview(s, build)

SpecAuth == SeededInit /\ [][AuthNext]_vars

(* The request a step served passed adminAuth: its route declares it and   *)
(* the request was not turned away.                                        *)
StepPassedAdminAuth ==
    \/ \E s \in Slots : /\ reqs'[s] # reqs[s]
                         /\ declaresAdminAuth(reqs'[s])
                         /\ reqs'[s].status # 401
    \/ msgResp' # msgResp /\ declaresAdminAuth(msgResp')

(* The step read stored messages: a message fetched or updated by id, the  *)
(* message list queried, or the overview's message queries.                *)
StepReadsMessages ==
    \/ msgResp' # msgResp /\ msgResp'.op \in {"GET", "PUT"} /\ msgResp'.status = 200
    \/ \E s \in Slots :
          /\ reqs'[s] # reqs[s]
          /\ \/ reqs'[s].op = "Overview"
             \/ reqs'[s].op = "List" /\ reqs'[s].coll = "messages" /\ reqs'[s].queried

(* C21: a step that creates, modifies or deletes a catalog or contact      *)
(* record, or reads or modifies a message, serves a request that passed    *)
(* adminAuth; the one exception is POST /api/messages appending a message. *)
C21_AdminOnly ==
    [][(\/ db' # db
        \/ StepReadsMessages
        \/ /\ messages' # messages
           /\ ~(msgResp'.op = "POST" /\ SubSeq(messages', 1, Len(messages)) = messages))
       => StepPassedAdminAuth]_vars

----------------------------------------------------------------------------
(* The connection middleware (part_002): connectToDatabase before every    *)
(* route.                                                                  *)

MaxConnects == 3

(* res.status(status).json(body): success is the body's success field,     *)
(* Absent for a body without one.                                          *)
json(r, success, status, msg) == respond([r EXCEPT !.success = success], status, msg)

(* app.use(async (req, res, next) => { await connectToDatabase(); ... }):  *)
(* up to the await of mongoose.connect. With a cached connection the       *)
(* function returns it and the middleware calls next(); without one it     *)
(* calls mongoose.connect, here numbered by the call.                      *)
ConnectBegin(s) ==
    LET r == [op |-> "Request", pc |-> "connecting", connection |-> cachedConnection,
              success |-> Absent, status |-> 0, msg |-> ""]
    IN  /\ Free(s)
        /\ IF cachedConnection # NoConnection
           THEN /\ reqs' = [reqs EXCEPT ![s] = [r EXCEPT !.pc = "routed"]]
                /\ UNCHANGED connects
           ELSE /\ connects < MaxConnects
                /\ connects' = connects + 1
                /\ reqs' = [reqs EXCEPT ![s] = [r EXCEPT !.connection = connects + 1]]
        /\ UNCHANGED <<db, assets, uploads, cachedConnection, msgVars>>

(* mongoose.connect resolves: cachedConnection = connection; next().       *)
ConnectResolve(s) ==
    LET r == reqs[s]
    IN  /\ r.op = "Request" /\ r.pc = "connecting"
        /\ cachedConnection' = r.connection
        /\ reqs' = [reqs EXCEPT ![s] = [r EXCEPT !.pc = "routed"]]
        /\ UNCHANGED <<db, assets, uploads, connects, msgVars>>

(* mongoose.connect rejects: the function rethrows and the middleware      *)
(* answers 500; cachedConnection stays as it is.                           *)
ConnectReject(s) ==
    LET r == reqs[s]
    IN  /\ r.op = "Request" /\ r.pc = "connecting"
        /\ reqs' = [reqs EXCEPT ![s] =
              json([r EXCEPT !.connection = NoConnection], "false", 500,
                   "Database connection failed")]
        /\ UNCHANGED <<db, assets, uploads, connVars, msgVars>>

(* app.get('/api/health'), for a request the connection middleware passed  *)
(* on: { status: 'OK', message, timestamp, environment }.                  *)
Health(s) ==
    /\ reqs[s].op = "Request" /\ reqs[s].pc = "routed"
    /\ reqs' = [reqs EXCEPT ![s] =
          json(reqs[s], Absent, 200, "Herbs Dashboard API is running")]
    /\ UNCHANGED <<db, assets, uploads, connVars, msgVars>>

(* app.get('/'): { success: true, message, version, endpoints }.           *)
Root(s) ==
    /\ reqs[s].op = "Request" /\ reqs[s].pc = "routed"
    /\ reqs' = [reqs EXCEPT ![s] = json(reqs[s], "true", 200, "Herbs Dashboard API")]
    /\ UNCHANGED <<db, assets, uploads, connVars, msgVars>>

(* app.use('*'): { success: false, message: 'Route not found', path }.     *)
RouteNotFound(s) ==
    /\ reqs[s].op = "Request" /\ reqs[s].pc = "routed"
    /\ reqs' = [reqs EXCEPT ![s] = json(reqs[s], "false", 404, "Route not found")]
    /\ UNCHANGED <<db, assets, uploads, connVars, msgVars>>

AppNext ==
    \/ \E s \in Slots : ConnectBegin(s)
    \/ \E s \in Slots : ConnectResolve(s)
    \/ \E s \in Slots : ConnectReject(s)
    \/ \E s \in Slots : Health(s)
    \/ \E s \in Slots : Root(s)
    \/ \E s \in Slots : RouteNotFound(s)

SpecApp == Init /\ [][AppNext]_vars

(* C22: mongoose.connect is called only while no connection is cached and  *)
(* no other request's connect is still under way.                          *)
C22_ConnectOnce ==
    [][connects' # connects =>
          /\ cachedConnection = NoConnection
          /\ \A t \in Slots : reqs[t].pc # "connecting"]_vars

----------------------------------------------------------------------------
(* The classifier and what surrounds a submission.                         *)

SampleSenders == {SenderName, <<"c", "e", "o">>}

(* The contact form submitted by different senders at different times,     *)
(* while contact methods are being created.                                *)
PureNext ==
    \/ \E n \in SampleSenders, t \in FewTexts, c \in {Absent, "complaint"} :
          PostMessage(n, t[1], t[2], c)
    \/ Tick
    \/ \E s \in Sequential : ContactPost(s, <<"p", "h", "o", "n", "e">>, <<"a">>)

SpecPure == Init /\ [][PureNext]_vars

C25_SuccessField ==
    \A s \in Slots :
        (reqs[s].op = "Request" /\ reqs[s].pc = "done")
        => reqs[s].success \in {"true", "false"}

----------------------------------------------------------------------------
(* Updates that end in an error.                                           *)

PutOps == {"ProductPut", "CertificatePut", "TeamPut"}

(* C26: after a PUT on a product, certificate or team member has ended in  *)
(* an error response, the stored entity still names an asset that is       *)
(* present on the media host (or none).                                    *)
C26_FailedPutKeepsAsset ==
    \A s \in Slots :
        LET r == reqs[s]
        IN  (/\ r.op \in PutOps /\ r.pc = "done" /\ r.status >= 400
             /\ findById(db[collOf(r)], r.id).live)
            => LET stored == findById(db[collOf(r)], r.id)
               IN  stored.imagePublicId = NoAsset \/ stored.imagePublicId \in assets

----------------------------------------------------------------------------
(* The list handlers await by await (routes/products.js, routes/contact.js *)
(* second router): other requests run between the page query and the count *)
(* query.                                                                  *)

(* GET /: page / limit / skip, the filter and await Model.find(filter)     *)
(* .sort().skip().limit().                                                 *)
ListFind(s, coll, page, limit, flag) ==
    LET usedPage == parseIntOr(page, 1)
        usedLimit == parseIntOr(limit, defaultLimit(coll))
        skip == (usedPage - 1) * usedLimit
        found == newestFirst(matching(coll, flag, Absent))
        r == [op |-> "List", pc |-> IF coll = "categories" THEN "aggregate" ELSE "count",
              coll |-> coll, page |-> page, limit |-> limit,
              flag |-> flag, replied |-> Absent, queried |-> TRUE,
              usedPage |-> usedPage, usedLimit |-> usedLimit,
              data |-> skipLimit(found, skip, usedLimit),
              counts |-> <<>>, total |-> 0, pages |-> 0,
              status |-> 0, msg |-> ""]
    IN  /\ Free(s)
        /\ coll \in {"products", "categories"}
        /\ reqs' = [reqs EXCEPT ![s] =
              IF skip < 0 THEN respond(r, 500, "Server error") ELSE r]
        /\ UNCHANGED <<db, assets, uploads, msgVars, connVars>>

(* GET /api/categories: await Product.aggregate([...]) and the counts put  *)
(* on the categories found.                                                *)
ListAggregate(s) ==
    LET r == reqs[s]
    IN  /\ r.op = "List" /\ r.pc = "aggregate"
        /\ reqs' = [reqs EXCEPT ![s] =
              [r EXCEPT !.pc = "count",
                        !.counts = [k \in DOMAIN r.data |-> productCounts(r.data[k])]]]
        /\ UNCHANGED <<db, assets, uploads, msgVars, connVars>>

(* Model.countDocuments(filter), on the store as it is now.                *)
countNow(r) == Cardinality(matching(r.coll, r.flag, r.replied))

(* const total = await Model.countDocuments(filter); res.json({ data,      *)
(* pagination: { current, pages: Math.ceil(total / limit), total, limit }}) *)
ListCount(s) ==
    LET r == reqs[s]
        total == countNow(r)
    IN  /\ r.op = "List" /\ r.pc = "count"
        /\ reqs' = [reqs EXCEPT ![s] =
              respond([r EXCEPT !.total = total,
                                !.pages = ceilPages(total, r.usedLimit)], 200, "")]
        /\ UNCHANGED <<db, assets, uploads, msgVars, connVars>>

RaceLimits == {NoParam, <<"1">>}

(* One slot lists products and categories while the other creates and      *)
(* deletes them.                                                           *)
ListRaceNext ==
    \/ \E coll \in {"products", "categories"}, limit \in RaceLimits :
          ListFind(1, coll, NoParam, limit, Absent)
    \/ ListAggregate(1)
    \/ ListCount(1)
    \/ ProductPostBegin(2, 1, FALSE, Absent)
    \/ ProductPostSave(2)
    \/ \E id \in ProductIds : DeleteBegin(2, "products", id)
    \/ DeleteRemove(2)
    \/ \E id \in CategoryIds : CategoryDeleteBegin(2, id)
    \/ CategoryDeleteCount(2)
    \/ CategoryDeleteRemove(2)

SpecListRace == SeededInit /\ [][ListRaceNext]_vars

(* C28: a list response never reports a total smaller than the number of   *)
(* records it returns, nor a pages value below the page it returns records *)
(* for.                                                                    *)
C28_PageAndTotalAgree ==
    \A s \in Slots :
        LET r == reqs[s]
        IN  (r.op = "List" /\ r.pc = "done" /\ r.status = 200) =>
                /\ r.total >= Len(r.data)
                /\ (Len(r.data) > 0 => r.pages >= r.usedPage)

----------------------------------------------------------------------------
(* The read and reply stamps of a message.                                 *)

(* C29: once readAt or repliedAt of a message is set no GET or PUT changes *)
(* it, and a message that is read has its readAt set.                      *)
C29_StampsSetOnce ==
    [][\A id \in DOMAIN messages :
          /\ messages[id].readAt # NoDate => messages'[id].readAt = messages[id].readAt
          /\ messages[id].repliedAt # NoDate =>
                messages'[id].repliedAt = messages[id].repliedAt
          /\ messages'[id].isRead => messages'[id].readAt # NoDate
      ]_vars

----------------------------------------------------------------------------
(* The meta of the contact list.                                           *)

(* C30: the meta.sortBy and meta.sortOrder of a contact list answer are    *)
(* the field and the direction the returned data was sorted by.            *)
C30_MetaMatchesSort ==
    \A s \in Slots :
        LET r == reqs[s]
        IN  (r.op = "ContactList" /\ r.pc = "done" /\ r.status = 200) =>
                /\ r.meta.sortBy = r.sortObj.field
                /\ r.meta.sortOrder = (IF r.sortObj.dir = 1 THEN "asc" ELSE "desc")
                /\ sortedBy(r.data, r.sortObj.field, r.sortObj.dir)

============================================================================
